---- MODULE Spec2Model ----
(***************************************************************************)
(* Model of steel-llama: the incremental thinking parser                   *)
(* (bot/llm_response.py), the streaming pipeline (bot/__init__.py with the *)
(* whole-text parser of bot/response.py), the chat sessions with their     *)
(* SQLite store (bot/chat_session.py), the respond command                 *)
(* (bot/bot_commands.py with Bot.create_temporary_session), the program    *)
(* start (main.py, bot/configuration.py), the rewriting of mentions        *)
(* (bot/bot_commands.py) and the model catalogue (bot/configuration.py,    *)
(* bot/chat_model.py, bot/model.py).                                       *)
(*                                                                         *)
(* Python strings are sequences of one-character strings.  Positions are   *)
(* 0-based as in Python; -1 stands for "not found" / None.                 *)
(***************************************************************************)
EXTENDS Integers, Sequences, FiniteSets, TLC

VARIABLES
    \* ---- incremental parser (bot/llm_response.py) ----
    llm,            \* the LLMResponse object
    text_pieces,    \* the text to be streamed, as a sequence of pieces
    pending,        \* chunks not yet passed to append
    fed,            \* chunks already passed to append
    \* ---- streaming pipeline (bot/__init__.py) ----
    stream,         \* chunks the backend iterator will still yield
    consumed,       \* chunks the loop has read from the iterator
    model_tags,     \* thinking tags of the model config, or NoTags
    response,       \* local variable `response` of process_llm_response
    last_edit_time, \* local variable `last_edit_time`
    now,            \* wall clock, time.time()
    edit_delay,     \* bot_config.edit_delay, in clock ticks
    edits,          \* message.edit calls issued so far
    spc,            \* position of the process_llm_response coroutine
    other_steps,    \* steps that other tasks of the event loop have taken
    \* ---- sessions and their store (bot/chat_session.py) ----
    db_sessions,    \* table sessions
    db_messages,    \* table messages
    db_active,      \* table active_sessions
    handles,        \* the session objects held by the program's variables
    hpc,            \* per variable: position inside mark_as_active
    raised,         \* exception raised by the latest call, or "none"
    last_saved,     \* variable whose save() was the latest write, or 0
    mark_prior,     \* per variable: mark_as_active found another session active
    \* ---- the respond command (bot/bot_commands.py) ----
    channel,        \* the messages of the channel, oldest first
    trigger,        \* id of the message that carries the command
    arrivals,       \* messages other users posted since the command
    context_limit,  \* config.bot.max_messages_for_context
    default_prompt, \* config.bot.default_system_prompt
    has_template,   \* the model's tokenizer has a chat_template
    bot_user,       \* bot.user is set
    backend_up,     \* the backend accepts connections
    r_session,      \* local variable `session` of respond
    placeholder,    \* the contents the reply message has had, oldest first
    backend_calls,  \* calls of ollama.chat / ollama.generate
    r_stream,       \* the stream the backend call returned: "none" or "open"
    r_read,         \* chunks read from that stream
    r_raised,       \* exception that ended the task, or "none"
    rpc,            \* position of the respond coroutine
    \* ---- program start (main.py, bot/configuration.py) ----
    config_file,    \* the file at DEFAULT_CONFIG_PATH
    config,         \* global `config` of main.py
    exit_status,    \* exit status of the process, or NotExited
    main_raised,    \* exception that left main.py uncaught, or "none"
    main_pc,        \* position of main.py
    \* ---- functions without state (bot_commands.py, configuration.py, chat_model.py, model.py) ----
    call_args,      \* the arguments of the call
    call_result,    \* what the call returned, or NotCalled
    \* ---- the session cache of the Bot object (bot/__init__.py) ----
    bot_sessions,   \* Bot.sessions: the cached session objects
    lookups,        \* what the session lookups made so far have returned
    next_obj        \* identity the next constructed session object gets

parserVars == <<llm, text_pieces, pending, fed>>
streamVars == <<stream, consumed, model_tags, response, last_edit_time, now, edit_delay, edits, spc,
                other_steps>>
storeVars == <<db_sessions, db_messages, db_active, handles, hpc, raised, last_saved, mark_prior>>
respondVars == <<channel, trigger, arrivals, context_limit, default_prompt, has_template,
                 bot_user, backend_up, r_session, placeholder, backend_calls, r_stream,
                 r_read, r_raised, rpc>>
startupVars == <<config_file, config, exit_status, main_raised, main_pc>>
callVars == <<call_args, call_result>>
cacheVars == <<bot_sessions, lookups, next_obj>>
vars == <<parserVars, streamVars, storeVars, respondVars, startupVars, callVars, cacheVars>>

-----------------------------------------------------------------------------
(* Bounds *)

MaxPieces == 4

MaxChunks == 3

MaxTime == 3

MaxEditDelay == 2

MaxMessages == 2

MaxMsgId == 2

MaxOlder == 2

MaxContext == 3

MaxArrivals == 1

\* pieces a message text is made of
MaxTextParts == 2

\* users in the mention list of a message
MaxMentions == 2

\* entries of the modelinfo mapping of a backend model
MaxInfoItems == 2

\* [models.<name>] sections of the configuration
MaxConfigs == 2

\* models the backend has installed
MaxInstalled == 2

\* steps of other tasks of the event loop
MaxOtherSteps == 2

\* session lookups made through the Bot object
MaxLookups == 3

\* ids of the messages of an earlier conversation, stored before the program starts
EarlierIds == {0}

\* the program variables that hold session objects
Handles == {1, 2}

MsgIds == 1..MaxMsgId

Owners == {1, 2}

Names == {"A", "B"}

Models == {"", "m"}

Prompts == {"", "P", "Q"}

StoredPrompts == {"", "P"}

-----------------------------------------------------------------------------
(* Python string primitives *)

NoPos == -1

IsSpace(c) == c \in {" ", "\n", "\t"}

\* s[a:b] for 0 <= a, b <= len(s)
Slice(s, a, b) == IF a >= b THEN <<>> ELSE SubSeq(s, a + 1, b)

\* s[a:]
SliceFrom(s, a) == Slice(s, a, Len(s))

\* str.find(t): lowest 0-based index where t occurs in s, -1 when absent
Find(s, t) ==
    LET hits == {i \in 0..(Len(s) - Len(t)) : Slice(s, i, i + Len(t)) = t}
    IN  IF hits = {} THEN NoPos
        ELSE CHOOSE i \in hits : \A j \in hits : i <= j

\* str.lstrip()
LStrip(s) ==
    IF \A i \in 1..Len(s) : IsSpace(s[i]) THEN <<>>
    ELSE SubSeq(s, CHOOSE i \in 1..Len(s) :
                       ~IsSpace(s[i]) /\ \A j \in 1..(i - 1) : IsSpace(s[j]),
                Len(s))

\* str.rstrip()
RStrip(s) ==
    IF \A i \in 1..Len(s) : IsSpace(s[i]) THEN <<>>
    ELSE SubSeq(s, 1, CHOOSE i \in 1..Len(s) :
                          ~IsSpace(s[i]) /\ \A j \in (i + 1)..Len(s) : IsSpace(s[j]))

\* str.strip()
Strip(s) == LStrip(RStrip(s))

RECURSIVE Concat(_)
\* "".join(seq)
Concat(seq) == IF seq = <<>> THEN <<>> ELSE Head(seq) \o Concat(Tail(seq))

-----------------------------------------------------------------------------
(* Thinking tags *)

\* a tag that is None
NoTag == <<>>

NoTags == [start |-> NoTag, end |-> NoTag]

StartTag == <<"<", "t", ">">>

EndTag == <<"<", "/", "t", ">">>

ThinkTags == [start |-> StartTag, end |-> EndTag]

-----------------------------------------------------------------------------
(* bot/llm_response.py: LLMResponse *)

NewLLMResponse(start_tag, end_tag) ==
    [thinking_start_tag |-> start_tag,
     thinking_end_tag   |-> end_tag,
     thoughts           |-> <<>>,
     content            |-> <<>>,
     thinking_started   |-> FALSE,
     thinking_finished  |-> FALSE]

thinking_in_progress(self) == self.thinking_started /\ ~self.thinking_finished

\* a start tag that is consumed without recording that thinking started
StartTagSeen_NotRecorded(self, chunk, thinking_start, thinking_end) ==
    [self EXCEPT
        !.thoughts = @ \o
            (IF thinking_end # NoPos
             THEN Strip(Slice(chunk, thinking_start, thinking_end))
             ELSE LStrip(SliceFrom(chunk, thinking_start)))]

\* _process_thinking, the branch `if thinking_start is not None`
StartTagSeen(self, chunk, thinking_start, thinking_end) ==
    [self EXCEPT
        !.thoughts = @ \o
            (IF thinking_end # NoPos
             THEN Strip(Slice(chunk, thinking_start, thinking_end))
             ELSE LStrip(SliceFrom(chunk, thinking_start))),
        !.thinking_started = TRUE]

\* _process_thinking, the branch `if thinking_end is not None`
EndTagSeen(self, chunk, thinking_end, chunk_processed) ==
    [self EXCEPT
        !.thoughts = IF chunk_processed THEN @
                     ELSE @ \o RStrip(Slice(chunk, 0, thinking_end)),
        !.thinking_finished = TRUE]

\* LLMResponse._process_thinking: the updated object and the returned flag
ProcessThinking(self, chunk) ==
    IF \/ self.thinking_finished
       \/ self.thinking_start_tag = NoTag
       \/ self.thinking_end_tag = NoTag
    THEN [self |-> self, ret |-> FALSE]
    ELSE
    LET thinking_start_tag_position == Find(chunk, self.thinking_start_tag)
        thinking_end_tag_position == Find(chunk, self.thinking_end_tag)
        thinking_start ==
            IF thinking_start_tag_position # NoPos
            THEN thinking_start_tag_position + Len(self.thinking_start_tag)
            ELSE NoPos
        thinking_end ==
            IF thinking_end_tag_position # NoPos THEN thinking_end_tag_position ELSE NoPos
        content_start0 ==
            IF thinking_end # NoPos THEN thinking_end + Len(self.thinking_end_tag) ELSE NoPos
        content_start ==
            IF content_start0 # NoPos /\ content_start0 >= Len(chunk)
            THEN NoPos ELSE content_start0
        s1 == IF thinking_start # NoPos
              THEN StartTagSeen(self, chunk, thinking_start, thinking_end)
              ELSE self
        processed1 == thinking_start # NoPos
        s2 == IF thinking_end # NoPos
              THEN EndTagSeen(s1, chunk, thinking_end, processed1)
              ELSE s1
        chunk_processed == processed1 \/ thinking_end # NoPos
    IN  IF thinking_in_progress(s2) /\ ~chunk_processed
        THEN [self |-> [s2 EXCEPT !.thoughts = @ \o chunk], ret |-> TRUE]
        ELSE IF content_start # NoPos
        THEN [self |-> [s2 EXCEPT !.content = @ \o LStrip(SliceFrom(chunk, content_start))],
              ret |-> TRUE]
        ELSE [self |-> s2, ret |-> chunk_processed]

\* append that trims the chunk it adds to the content
LLMAppend_Trimmed(self, chunk) ==
    LET r == ProcessThinking(self, chunk)
    IN  IF ~thinking_in_progress(r.self) /\ ~r.ret
        THEN [r.self EXCEPT !.content = @ \o LStrip(chunk)]
        ELSE r.self

\* LLMResponse.append
LLMAppend(self, chunk) ==
    LET r == ProcessThinking(self, chunk)
    IN  IF ~thinking_in_progress(r.self) /\ ~r.ret
        THEN [r.self EXCEPT !.content = @ \o chunk]
        ELSE r.self

RECURSIVE AppendAll(_, _)
\* append called on each chunk of a sequence in turn
AppendAll(self, chunks) ==
    IF chunks = <<>> THEN self
    ELSE AppendAll(LLMAppend(self, Head(chunks)), Tail(chunks))

-----------------------------------------------------------------------------
(* Chunk streams fed to the parser *)

\* the pieces a streamed text is made of; a chunk is one or more whole pieces
Pieces == {StartTag, EndTag, <<"a">>, <<" ">>}

RECURSIVE SplitAt(_, _, _)
\* the chunks of piece sequence ps when cut after the positions in cuts;
\* k is the number of pieces already placed
SplitAt(ps, cuts, k) ==
    IF ps = <<>> THEN <<>>
    ELSE LET ends == {i \in 1..Len(ps) : (k + i) \in cuts \/ i = Len(ps)}
             e == CHOOSE i \in ends : \A j \in ends : i <= j
         IN  <<Concat(SubSeq(ps, 1, e))>> \o SplitAt(SubSeq(ps, e + 1, Len(ps)), cuts, k + e)

Splits(ps) == {SplitAt(ps, cuts, 0) : cuts \in SUBSET (1..(Len(ps) - 1))}

TagConfigs == {ThinkTags, NoTags}

\* the same, with the configurations that set only one of the two tags
ParserTagConfigs ==
    TagConfigs \cup {[start |-> StartTag, end |-> NoTag], [start |-> NoTag, end |-> EndTag]}

ParserInit ==
    /\ \E n \in 0..MaxPieces : text_pieces \in [1..n -> Pieces]
    /\ pending \in Splits(text_pieces)
    /\ fed = <<>>
    /\ \E tags \in ParserTagConfigs : llm = NewLLMResponse(tags.start, tags.end)

ParserIdle ==
    /\ text_pieces = <<>>
    /\ pending = <<>>
    /\ fed = <<>>
    /\ llm = NewLLMResponse(NoTag, NoTag)

\* response.append(chunk) for the next chunk of the stream
AppendChunk ==
    /\ pending # <<>>
    /\ llm' = LLMAppend(llm, Head(pending))
    /\ fed' = Append(fed, Head(pending))
    /\ pending' = Tail(pending)
    /\ UNCHANGED <<text_pieces, streamVars, storeVars, respondVars, startupVars, callVars, cacheVars>>

-----------------------------------------------------------------------------
(* bot/response.py: LLMResponse (whole-text parser used by the pipeline) *)

\* the value None of an optional string
None == <<"None">>

\* LLMResponse._extract_thoughts: the (thoughts, content) it leaves
ExtractThoughts(raw_response, thinking_start_tag, thinking_end_tag) ==
    IF thinking_start_tag # NoTag /\ thinking_end_tag # NoTag
    THEN LET thinking_start_tag_position == Find(raw_response, thinking_start_tag)
             thinking_end_tag_position == Find(raw_response, thinking_end_tag)
             thoughts_start == thinking_start_tag_position + Len(thinking_start_tag)
             thoughts_end == thinking_end_tag_position + Len(thinking_end_tag)
         IN  IF thinking_start_tag_position # NoPos
             THEN IF thinking_end_tag_position # NoPos
                  THEN [thoughts |-> Strip(Slice(raw_response, thoughts_start,
                                                 thinking_end_tag_position)),
                        content  |-> LStrip(SliceFrom(raw_response, thoughts_end))]
                  ELSE [thoughts |-> LStrip(SliceFrom(raw_response, thoughts_start)),
                        content  |-> None]
             ELSE [thoughts |-> None, content |-> raw_response]
    ELSE [thoughts |-> None, content |-> raw_response]

\* LLMResponse.__init__ / _process
WholeTextResponse(raw_response, thinking_tags) ==
    ExtractThoughts(Strip(raw_response), thinking_tags.start, thinking_tags.end)

-----------------------------------------------------------------------------
(* bot/__init__.py: rendering and process_llm_response *)

WaitingText ==
    <<"W", "a", "i", "t", "i", "n", "g", " ", "f", "o", "r", " ",
      "r", "e", "s", "p", "o", "n", "s", "e", ".", ".", ".">>

\* _process_raw_response
ProcessRawResponse(raw_response, thinking_tags) ==
    LET r == WholeTextResponse(raw_response, thinking_tags)
        has_content == r.content # None /\ Len(r.content) > 0
        has_thoughts == r.thoughts # None /\ Len(r.thoughts) > 0
    IN  IF has_content
        THEN IF has_thoughts
             THEN <<"*">> \o r.thoughts \o <<"*", "\n", "\n">> \o r.content
             ELSE r.content
        ELSE IF has_thoughts
        THEN <<"*">> \o r.thoughts \o <<"*">>
        ELSE WaitingText

\* the periodic edit is issued however little time has passed
EditDue_Always(t, last, delay) == t - last >= 0

\* `time.time() - last_edit_time >= bot_config.edit_delay`
EditDue(t, last, delay) == t - last >= delay

\* the final edit is issued unconditionally
FinalEditNeeded_Always(resp) == TRUE

\* `if response != "":` after the loop
FinalEditNeeded(resp) == resp # <<>>

\* the message length limit of the chat platform
DiscordMessageLimit == 2000

BigChunk == [i \in 1..(DiscordMessageLimit + 1) |-> "a"]

\* the texts a chunk record of the backend stream may carry
StreamChunks ==
    {<<>>, <<"a">>, StartTag \o <<"a">>, EndTag \o <<" ", "a">>}

\* the same, with a chunk longer than a platform message
LongStreamChunks == StreamChunks \cup {BigChunk}

StreamInit(chunk_texts) ==
    /\ \E n \in 0..MaxChunks : stream \in [1..n -> chunk_texts]
    /\ consumed = <<>>
    /\ model_tags \in TagConfigs
    /\ edit_delay \in 1..MaxEditDelay
    /\ response = <<>>
    /\ now = 0
    /\ last_edit_time = 0
    /\ edits = <<>>
    /\ spc = "loop"
    /\ other_steps = 0

StreamIdle ==
    /\ stream = <<>>
    /\ consumed = <<>>
    /\ model_tags = NoTags
    /\ edit_delay = 1
    /\ response = <<>>
    /\ now = 0
    /\ last_edit_time = 0
    /\ edits = <<>>
    /\ spc = "done"
    /\ other_steps = 0

\* the wall clock advances
Tick ==
    /\ now < MaxTime
    /\ spc # "done"
    /\ now' = now + 1
    /\ UNCHANGED <<stream, consumed, model_tags, response, last_edit_time, edit_delay, edits, spc,
                   other_steps>>
    /\ UNCHANGED <<parserVars, storeVars, respondVars, startupVars, callVars, cacheVars>>

\* one iteration of `for chunk in response_stream`, up to the call of
\* message.edit when the edit is due
NextChunk ==
    /\ spc = "loop"
    /\ stream # <<>>
    /\ response' = response \o Head(stream)
    /\ stream' = Tail(stream)
    /\ consumed' = Append(consumed, Head(stream))
    /\ IF EditDue(now, last_edit_time, edit_delay)
       THEN /\ edits' = Append(edits, [time |-> now, final |-> FALSE,
                                       raw |-> response',
                                       content |-> ProcessRawResponse(response', model_tags)])
            /\ spc' = "editing"
       ELSE UNCHANGED <<edits, spc>>
    /\ UNCHANGED <<model_tags, last_edit_time, now, edit_delay, other_steps>>
    /\ UNCHANGED <<parserVars, storeVars, respondVars, startupVars, callVars, cacheVars>>

\* `await message.edit(...)` returns; `last_edit_time = time.time()`
EditReturns ==
    /\ spc = "editing"
    /\ last_edit_time' = now
    /\ spc' = "loop"
    /\ UNCHANGED <<stream, consumed, model_tags, response, now, edit_delay, edits, other_steps>>
    /\ UNCHANGED <<parserVars, storeVars, respondVars, startupVars, callVars, cacheVars>>

\* the stream is exhausted: the code after the loop
StreamEnd ==
    /\ spc = "loop"
    /\ stream = <<>>
    /\ IF FinalEditNeeded(response)
       THEN edits' = Append(edits, [time |-> now, final |-> TRUE,
                                    raw |-> response,
                                    content |-> ProcessRawResponse(response, model_tags)])
       ELSE UNCHANGED edits
    /\ spc' = "done"
    /\ UNCHANGED <<stream, consumed, model_tags, response, last_edit_time, now, edit_delay,
                   other_steps>>
    /\ UNCHANGED <<parserVars, storeVars, respondVars, startupVars, callVars, cacheVars>>

\* another task of the event loop takes a step. The loop runs one coroutine at
\* a time and changes task only where the running one awaits: in
\* process_llm_response that is message.edit. `for chunk in response_stream`
\* asks the synchronous iterator for the next chunk on the loop's own thread.
OtherTaskStep ==
    /\ spc \in {"editing", "done"}
    /\ other_steps < MaxOtherSteps
    /\ other_steps' = other_steps + 1
    /\ UNCHANGED <<stream, consumed, model_tags, response, last_edit_time, now, edit_delay,
                   edits, spc>>
    /\ UNCHANGED <<parserVars, storeVars, respondVars, startupVars, callVars, cacheVars>>

-----------------------------------------------------------------------------
(* bot/chat_session.py: messages and timestamps *)

Digits == <<"0", "1", "2", "3", "4", "5", "6", "7", "8", "9">>

\* datetime.isoformat(), on a clock of 100 instants: fixed-width text
IsoFormat(t) == <<Digits[(t \div 10) + 1], Digits[(t % 10) + 1]>>

\* datetime.fromisoformat()
FromIsoFormat(txt) == CHOOSE t \in 0..99 : IsoFormat(t) = txt

DigitValue(c) == CHOOSE d \in 0..9 : Digits[d + 1] = c

\* SQLite's BINARY collation on the two-character timestamp texts
TextLess(a, b) ==
    \/ DigitValue(a[1]) < DigitValue(b[1])
    \/ a[1] = b[1] /\ DigitValue(a[2]) < DigitValue(b[2])

\* datetime.min
DatetimeMin == 0

SystemMessageId == -1

\* a message of the chat platform: ids grow with the creation time
TimestampOf(id) == id

RoleOf(id) == IF id % 2 = 1 THEN "user" ELSE "assistant"

\* ChatMessage.from_discord_message(message, role, session.name, session.owner_id)
FromDiscordMessage(id, session_name, owner_id) ==
    [id           |-> id,
     owner_id     |-> owner_id,
     session_name |-> session_name,
     timestamp    |-> TimestampOf(id),
     role         |-> RoleOf(id),
     content      |-> "hi"]

\* the synthetic system message built by _update_system_prompt
SystemMessage(self) ==
    [id           |-> SystemMessageId,
     owner_id     |-> self.owner_id,
     session_name |-> self.name,
     timestamp    |-> DatetimeMin,
     role         |-> "system",
     content      |-> self.system_prompt]

\* [message for message in seq if message.role != MessageRole.SYSTEM]
RECURSIVE WithoutSystem(_)
WithoutSystem(seq) ==
    IF seq = <<>> THEN <<>>
    ELSE IF Head(seq).role # "system"
         THEN <<Head(seq)>> \o WithoutSystem(Tail(seq))
         ELSE WithoutSystem(Tail(seq))

\* the old system message is kept and the new one is appended at the end
UpdateSystemPromptMessages_NoFilter(self) ==
    IF self.system_prompt # ""
    THEN [self EXCEPT !.messages = @ \o <<SystemMessage(self)>>]
    ELSE self

\* ChatSession._update_system_prompt, the in-memory part (lines 99-112)
UpdateSystemPromptMessages(self) ==
    LET kept == [self EXCEPT !.messages = WithoutSystem(@)]
    IN  IF kept.system_prompt # ""
        THEN [kept EXCEPT !.messages = <<SystemMessage(kept)>> \o @]
        ELSE kept

-----------------------------------------------------------------------------
(* bot/chat_session.py: the SQLite store *)

\* the value None of a session variable
NoSession == [persistent |-> FALSE, owner_id |-> 0, name |-> "", model |-> "",
              system_prompt |-> "", messages |-> <<>>]

\* the row a message is stored as
MessageRow(msg) ==
    [id           |-> msg.id,
     owner_id     |-> msg.owner_id,
     session_name |-> msg.session_name,
     timestamp    |-> IsoFormat(msg.timestamp),
     role         |-> msg.role,
     content      |-> msg.content]

\* ChatMessage(...) built by load from a row
MessageOfRow(row) ==
    [id           |-> row.id,
     owner_id     |-> row.owner_id,
     session_name |-> row.session_name,
     timestamp    |-> FromIsoFormat(row.timestamp),
     role         |-> row.role,
     content      |-> row.content]

\* SELECT ... FROM messages WHERE owner_id = ? AND session_name = ?
MessageRowsOf(db_msgs, owner_id, name) ==
    {r \in db_msgs : r.owner_id = owner_id /\ r.session_name = name}

\* `id not in current_messages_ids`: id is a row tuple (id,) of fetchall and
\* the list holds ints, so a stored row is never found in the list
StoredRowInMemory(row, msgs) == FALSE

\* `msg.id not in saved_messages_ids`: an int is never found among row tuples
MessageInStore(msg, rows) == FALSE

\* execute("DELETE FROM messages WHERE id = ?", (id,)) with id a row tuple:
\* sqlite3 cannot bind a tuple
DeleteParameterBinds == FALSE

\* the column list of the INSERT INTO messages statement
InsertColumns == 8

\* the "?" placeholders of its VALUES clause
InsertPlaceholders == 7

RECURSIVE InsertRows(_, _)
\* the INSERTs of the second loop, in list order; PK(id) must stay unique
InsertRows(db_msgs, msgs) ==
    IF msgs = <<>> THEN [rows |-> db_msgs, raised |-> "none"]
    ELSE IF InsertColumns # InsertPlaceholders
    THEN [rows |-> db_msgs, raised |-> "OperationalError"]
    ELSE IF \E r \in db_msgs : r.id = Head(msgs).id
    THEN [rows |-> db_msgs, raised |-> "IntegrityError"]
    ELSE InsertRows(db_msgs \cup {MessageRow(Head(msgs))}, Tail(msgs))

\* SqliteChatSession._save_session_messages: the messages table it leaves and
\* the exception it raises; the connection context manager rolls back on an
\* exception
SaveSessionMessages(self, db_msgs) ==
    LET saved == MessageRowsOf(db_msgs, self.owner_id, self.name)
        to_delete == {r \in saved : ~StoredRowInMemory(r, self.messages)}
        to_insert == SelectSeq(self.messages, LAMBDA m : ~MessageInStore(m, saved))
    IN  IF to_delete # {} /\ ~DeleteParameterBinds
        THEN [rows |-> db_msgs, raised |-> "ProgrammingError"]
        ELSE LET ins == InsertRows(db_msgs \ to_delete, to_insert)
             IN  IF ins.raised # "none"
                 THEN [rows |-> db_msgs, raised |-> ins.raised]
                 ELSE ins

\* SqliteChatSession._save_session_info: INSERT OR REPLACE INTO sessions
SaveSessionInfo(self, db_sess) ==
    {r \in db_sess : ~(r.owner_id = self.owner_id /\ r.name = self.name)}
        \cup {[owner_id |-> self.owner_id, name |-> self.name,
               model |-> self.model, system_prompt |-> self.system_prompt]}

\* the orders in which ORDER BY timestamp ASC may return a set of rows
SortedRowSeqs(rows) ==
    {seq \in [1..Cardinality(rows) -> rows] :
        /\ \A r \in rows : \E i \in 1..Len(seq) : seq[i] = r
        /\ \A i, j \in 1..Len(seq) : i < j => ~TextLess(seq[j].timestamp, seq[i].timestamp)}

\* SqliteChatSession.load on a stored session: the object it leaves, for one
\* of the row orders the query may return
LoadedSessions(self, db_sess, db_msgs) ==
    LET details == CHOOSE r \in db_sess : r.owner_id = self.owner_id /\ r.name = self.name
        s1 == [self EXCEPT !.model = details.model,
                           !.system_prompt = details.system_prompt]
        rows == MessageRowsOf(db_msgs, self.owner_id, self.name)
    IN  IF rows = {} THEN {s1}
        ELSE {[s1 EXCEPT !.messages = [i \in 1..Len(seq) |-> MessageOfRow(seq[i])]] :
                 seq \in SortedRowSeqs(rows)}

\* ChatSession.__init__ up to the call of _save_session_messages
InitialSession(persistent, owner_id, name, model, system_prompt) ==
    UpdateSystemPromptMessages(
        [persistent |-> persistent, owner_id |-> owner_id, name |-> name,
         model |-> model, system_prompt |-> system_prompt, messages |-> <<>>])

\* the messages table and exception left by self._save_session_messages()
SaveMessagesOf(self, db_msgs) ==
    IF self.persistent THEN SaveSessionMessages(self, db_msgs)
    ELSE [rows |-> db_msgs, raised |-> "none"]

\* the sessions table left by self._save_session_info()
SaveInfoOf(self, db_sess) ==
    IF self.persistent THEN SaveSessionInfo(self, db_sess) ELSE db_sess

\* the session (owner_id, name) has a row in table sessions
SessionStored(db_sess, owner_id, name) ==
    \E r \in db_sess : r.owner_id = owner_id /\ r.name = name

ActiveRowsOf(rows, owner_id) == {r \in rows : r.owner_id = owner_id}

IsSession(s) == s # NoSession

-----------------------------------------------------------------------------
(* Session operations *)

Idle(h) == hpc[h] = "idle"

\* session = ChatSession(owner_id, name, model, system_prompt)
NewChatSession(h, o, n, m, p) ==
    /\ Idle(h)
    /\ handles' = [handles EXCEPT ![h] = InitialSession(FALSE, o, n, m, p)]
    /\ raised' = "none"
    /\ UNCHANGED <<db_sessions, db_messages, db_active, hpc, last_saved, mark_prior>>
    /\ UNCHANGED <<parserVars, streamVars, respondVars, startupVars, callVars, cacheVars>>

\* session = SqliteChatSession(owner_id, name, db_path); when the constructor
\* raises, the variable keeps its old value
NewSqliteChatSession(h, o, n) ==
    /\ Idle(h)
    /\ LET obj == InitialSession(TRUE, o, n, "", "")
           r == SaveMessagesOf(obj, db_messages)
       IN  /\ raised' = r.raised
           /\ db_messages' = r.rows
           /\ handles' = IF r.raised = "none" THEN [handles EXCEPT ![h] = obj] ELSE handles
    /\ UNCHANGED <<db_sessions, db_active, hpc, last_saved, mark_prior>>
    /\ UNCHANGED <<parserVars, streamVars, respondVars, startupVars, callVars, cacheVars>>

\* the system_prompt setter that puts the new system message in front of the
\* list without removing the one that is there
AssignSystemPrompt_KeepsOldSystemMessage(self, p, db_sess, db_msgs) ==
    LET s1 == [self EXCEPT !.system_prompt = p]
        s2 == UpdateSystemPromptMessages_NoFilter(s1)
        r == SaveMessagesOf(s2, db_msgs)
    IN  [session |-> s2, sessions |-> SaveInfoOf(s1, db_sess),
         rows |-> r.rows, raised |-> r.raised]

\* the system_prompt setter: the object and the tables it leaves, and the
\* exception it ends with
AssignSystemPrompt(self, p, db_sess, db_msgs) ==
    LET s1 == [self EXCEPT !.system_prompt = p]
        s2 == UpdateSystemPromptMessages(s1)
        r == SaveMessagesOf(s2, db_msgs)
    IN  [session |-> s2, sessions |-> SaveInfoOf(s1, db_sess),
         rows |-> r.rows, raised |-> r.raised]

\* session.system_prompt = p
SetSystemPrompt(h, p) ==
    /\ Idle(h) /\ IsSession(handles[h])
    /\ LET r == AssignSystemPrompt(handles[h], p, db_sessions, db_messages)
       IN  /\ db_sessions' = r.sessions
           /\ handles' = [handles EXCEPT ![h] = r.session]
           /\ db_messages' = r.rows
           /\ raised' = r.raised
    /\ last_saved' = 0
    /\ UNCHANGED <<db_active, hpc, mark_prior>>
    /\ UNCHANGED <<parserVars, streamVars, respondVars, startupVars, callVars, cacheVars>>

\* session.model = m
SetModel(h, m) ==
    /\ Idle(h) /\ IsSession(handles[h])
    /\ LET s1 == [handles[h] EXCEPT !.model = m]
       IN  /\ handles' = [handles EXCEPT ![h] = s1]
           /\ db_sessions' = SaveInfoOf(s1, db_sessions)
    /\ raised' = "none"
    /\ last_saved' = 0
    /\ UNCHANGED <<db_messages, db_active, hpc, mark_prior>>
    /\ UNCHANGED <<parserVars, streamVars, respondVars, startupVars, callVars, cacheVars>>

\* session.name = n: the messages in memory and the rows of the other tables
\* keep the old name
SetName(h, n) ==
    /\ Idle(h) /\ IsSession(handles[h])
    /\ LET s1 == [handles[h] EXCEPT !.name = n]
       IN  /\ handles' = [handles EXCEPT ![h] = s1]
           /\ db_sessions' = SaveInfoOf(s1, db_sessions)
    /\ raised' = "none"
    /\ last_saved' = 0
    /\ UNCHANGED <<db_messages, db_active, hpc, mark_prior>>
    /\ UNCHANGED <<parserVars, streamVars, respondVars, startupVars, callVars, cacheVars>>

\* session.add_message(ChatMessage.from_discord_message(...)) for message id
AddMessage(h, id) ==
    /\ Idle(h) /\ IsSession(handles[h])
    /\ Len(WithoutSystem(handles[h].messages)) < MaxMessages
    /\ LET msg == FromDiscordMessage(id, handles[h].name, handles[h].owner_id)
           s1 == [handles[h] EXCEPT !.messages = Append(@, msg)]
           r == SaveMessagesOf(s1, db_messages)
       IN  /\ handles' = [handles EXCEPT ![h] = s1]
           /\ db_messages' = r.rows
           /\ raised' = r.raised
    /\ last_saved' = 0
    /\ UNCHANGED <<db_sessions, db_active, hpc, mark_prior>>
    /\ UNCHANGED <<parserVars, streamVars, respondVars, startupVars, callVars, cacheVars>>

\* session.save()
Save(h) ==
    /\ Idle(h) /\ IsSession(handles[h])
    /\ LET r == SaveMessagesOf(handles[h], db_messages)
       IN  /\ db_sessions' = SaveInfoOf(handles[h], db_sessions)
           /\ db_messages' = r.rows
           /\ raised' = r.raised
    /\ last_saved' = IF handles[h].persistent THEN h ELSE 0
    /\ UNCHANGED <<handles, db_active, hpc, mark_prior>>
    /\ UNCHANGED <<parserVars, streamVars, respondVars, startupVars, callVars, cacheVars>>

\* session.load()
Load(h) ==
    /\ Idle(h) /\ IsSession(handles[h]) /\ handles[h].persistent
    /\ IF \E r \in db_sessions : r.owner_id = handles[h].owner_id /\ r.name = handles[h].name
       THEN \E s \in LoadedSessions(handles[h], db_sessions, db_messages) :
                handles' = [handles EXCEPT ![h] = s]
       ELSE UNCHANGED handles
    /\ raised' = "none"
    /\ UNCHANGED <<db_sessions, db_messages, db_active, hpc, last_saved, mark_prior>>
    /\ UNCHANGED <<parserVars, streamVars, respondVars, startupVars, callVars, cacheVars>>

\* delete() that leaves the active pointer of the session in place
Delete_KeepsActivePointer(h) ==
    /\ Idle(h) /\ IsSession(handles[h]) /\ handles[h].persistent
    /\ LET o == handles[h].owner_id
           n == handles[h].name
       IN  /\ db_messages' = db_messages \ MessageRowsOf(db_messages, o, n)
           /\ db_sessions' = {r \in db_sessions : ~(r.owner_id = o /\ r.name = n)}
           /\ UNCHANGED db_active
    /\ raised' = "none"
    /\ last_saved' = 0
    /\ UNCHANGED <<handles, hpc, mark_prior>>
    /\ UNCHANGED <<parserVars, streamVars, respondVars, startupVars, callVars, cacheVars>>

\* session.delete()
Delete(h) ==
    /\ Idle(h) /\ IsSession(handles[h]) /\ handles[h].persistent
    /\ LET o == handles[h].owner_id
           n == handles[h].name
       IN  /\ db_messages' = db_messages \ MessageRowsOf(db_messages, o, n)
           /\ db_sessions' = {r \in db_sessions : ~(r.owner_id = o /\ r.name = n)}
           /\ db_active' = {r \in db_active : ~(r.owner_id = o /\ r.session_name = n)}
    /\ raised' = "none"
    /\ last_saved' = 0
    /\ UNCHANGED <<handles, hpc, mark_prior>>
    /\ UNCHANGED <<parserVars, streamVars, respondVars, startupVars, callVars, cacheVars>>

\* session.mark_as_active(), first transaction: DELETE ...; conn.commit()
MarkAsActiveDelete(h) ==
    /\ Idle(h) /\ IsSession(handles[h]) /\ handles[h].persistent
    /\ db_active' = db_active \ ActiveRowsOf(db_active, handles[h].owner_id)
    /\ hpc' = [hpc EXCEPT ![h] = "mark_insert"]
    /\ mark_prior' = [mark_prior EXCEPT ![h] =
           /\ ActiveRowsOf(db_active, handles[h].owner_id) # {}
           /\ \A r \in ActiveRowsOf(db_active, handles[h].owner_id) :
                  r.session_name # handles[h].name]
    /\ raised' = "none"
    /\ UNCHANGED <<handles, db_sessions, db_messages, last_saved>>
    /\ UNCHANGED <<parserVars, streamVars, respondVars, startupVars, callVars, cacheVars>>

\* session.mark_as_active(), second transaction: INSERT ...; conn.commit();
\* UNIQUE (owner_id, session_name) rejects a second copy of the same row
MarkAsActiveInsert(h) ==
    /\ hpc[h] = "mark_insert"
    /\ LET row == [owner_id |-> handles[h].owner_id, session_name |-> handles[h].name]
       IN  IF row \in db_active
           THEN raised' = "IntegrityError" /\ UNCHANGED db_active
           ELSE raised' = "none" /\ db_active' = db_active \cup {row}
    /\ hpc' = [hpc EXCEPT ![h] = "idle"]
    /\ mark_prior' = [mark_prior EXCEPT ![h] = FALSE]
    /\ UNCHANGED <<handles, db_sessions, db_messages, last_saved>>
    /\ UNCHANGED <<parserVars, streamVars, respondVars, startupVars, callVars, cacheVars>>

\* mark_as_active() that removes only the row of this very session
MarkAsActive_DeletesOwnRowOnly(h) ==
    /\ \A g \in Handles : Idle(g)
    /\ IsSession(handles[h]) /\ handles[h].persistent
    /\ LET row == [owner_id |-> handles[h].owner_id, session_name |-> handles[h].name]
       IN  db_active' = (db_active \ {row}) \cup {row}
    /\ mark_prior' = [mark_prior EXCEPT ![h] =
           /\ ActiveRowsOf(db_active, handles[h].owner_id) # {}
           /\ \A r \in ActiveRowsOf(db_active, handles[h].owner_id) :
                  r.session_name # handles[h].name]
    /\ raised' = "none"
    /\ UNCHANGED <<handles, hpc, db_sessions, db_messages, last_saved>>
    /\ UNCHANGED <<parserVars, streamVars, respondVars, startupVars, callVars, cacheVars>>

\* session.mark_as_active() run from start to end while no other call on the
\* store is in progress: the DELETE and the INSERT with nothing in between.
\* After the DELETE the owner has no row, so the INSERT cannot hit UNIQUE.
MarkAsActive(h) ==
    /\ \A g \in Handles : Idle(g)
    /\ IsSession(handles[h]) /\ handles[h].persistent
    /\ LET row == [owner_id |-> handles[h].owner_id, session_name |-> handles[h].name]
       IN  db_active' = (db_active \ ActiveRowsOf(db_active, handles[h].owner_id)) \cup {row}
    /\ mark_prior' = [mark_prior EXCEPT ![h] =
           /\ ActiveRowsOf(db_active, handles[h].owner_id) # {}
           /\ \A r \in ActiveRowsOf(db_active, handles[h].owner_id) :
                  r.session_name # handles[h].name]
    /\ raised' = "none"
    /\ UNCHANGED <<handles, hpc, db_sessions, db_messages, last_saved>>
    /\ UNCHANGED <<parserVars, streamVars, respondVars, startupVars, callVars, cacheVars>>

\* SqliteChatSession.disable_active_session(user_id, db_path)
DisableActiveSession(o) ==
    /\ db_active' = db_active \ ActiveRowsOf(db_active, o)
    /\ raised' = "none"
    /\ UNCHANGED <<handles, db_sessions, db_messages, hpc, last_saved, mark_prior>>
    /\ UNCHANGED <<parserVars, streamVars, respondVars, startupVars, callVars, cacheVars>>

\* session = SqliteChatSession.get_active_session(user_id, db_path)
GetActiveSession(h, o) ==
    /\ Idle(h)
    /\ IF ActiveRowsOf(db_active, o) = {}
       THEN /\ handles' = [handles EXCEPT ![h] = NoSession]
            /\ raised' = "none"
            /\ UNCHANGED db_messages
       ELSE \E row \in ActiveRowsOf(db_active, o) :
                LET obj == InitialSession(TRUE, o, row.session_name, "", "")
                    r == SaveMessagesOf(obj, db_messages)
                IN  /\ raised' = r.raised
                    /\ db_messages' = r.rows
                    /\ handles' = IF r.raised = "none"
                                  THEN [handles EXCEPT ![h] = obj] ELSE handles
    /\ UNCHANGED <<db_sessions, db_active, hpc, last_saved, mark_prior>>
    /\ UNCHANGED <<parserVars, streamVars, respondVars, startupVars, callVars, cacheVars>>

StoreInit ==
    /\ db_sessions = {}
    /\ db_messages = {}
    /\ db_active = {}
    /\ handles = [h \in Handles |-> NoSession]
    /\ hpc = [h \in Handles |-> "idle"]
    /\ raised = "none"
    /\ last_saved = 0
    /\ mark_prior = [h \in Handles |-> FALSE]

\* the database file found at session_db_path when the program starts:
\* empty, or with session (owner_id, name) stored, some of the messages ids
\* as its history, and possibly marked as the active session of its owner
StoredInit(owner_id, name, ids) ==
    /\ \E stored \in BOOLEAN, m \in Models, p \in StoredPrompts, active \in BOOLEAN,
          history \in SUBSET ids :
          /\ db_sessions = IF stored
                           THEN {[owner_id |-> owner_id, name |-> name,
                                  model |-> m, system_prompt |-> p]}
                           ELSE {}
          /\ db_messages = IF stored
                           THEN {MessageRow(FromDiscordMessage(id, name, owner_id)) :
                                     id \in history}
                           ELSE {}
          /\ db_active = IF stored /\ active
                         THEN {[owner_id |-> owner_id, session_name |-> name]}
                         ELSE {}
    /\ handles = [h \in Handles |-> NoSession]
    /\ hpc = [h \in Handles |-> "idle"]
    /\ raised = "none"
    /\ last_saved = 0
    /\ mark_prior = [h \in Handles |-> FALSE]

-----------------------------------------------------------------------------
(* bot/__init__.py and bot/bot_commands.py: the respond command *)

\* ctx.message.author.id
UserId == 1

\* config.admin.id
AdminId == 2

\* bot.user.id
BotUserId == 3

\* the id of another member of the channel
OtherUserId == 4

\* f"Temp-{ctx.message.channel.id}", for channel 1
TempSessionName == "Temp-1"

\* config.models.default_model; from_config rejects a default model that has
\* no configuration section
DefaultModel == "m"

\* the keys of config.models.models
Catalogue == {"m"}

ConfiguredPrompts == {"", "P"}

\* the texts the reply message is given
Shown(text, mentions, detail) == [text |-> text, mentions |-> mentions, detail |-> detail]

StartingUpMessage == Shown("*Starting up...*", {}, "")

ReadingHistoryMessage == Shown("*Reading chat history...*", {}, "")

NotLoggedInMessage == Shown("*Bot is somehow not logged in*", {AdminId}, "")

ModelNotAvailableMessage(session) ==
    Shown("**Oops, model is not available**", {AdminId}, session.model)

ProcessingMessage == Shown("*Processing messages...*", {}, "")

LlmBackendUnavailableMessage ==
    Shown("**The LLM backend is currently unavailable, try again later.**", {}, "")

UnknownErrorMessage(e) == Shown("**Oops, an unknown error has happened**", {}, e)

\* the reply of the pipeline's final edit
RenderedReplyMessage == Shown("reply", {}, "")

\* a message of the channel; ids and creation times grow with the position
ChannelMessage(id, author) == [id |-> id, author |-> author]

\* ChatMessage.from_discord_message(message, role, session_name, owner_id)
ChatMessageOf(message, role, session_name, owner_id) ==
    [id           |-> message.id,
     owner_id     |-> owner_id,
     session_name |-> session_name,
     timestamp    |-> TimestampOf(message.id),
     role         |-> role,
     content      |-> "hi"]

\* channel.history(limit=limit): the newest messages, newest first
History(ch, limit) ==
    LET n == IF limit < Len(ch) THEN limit ELSE Len(ch)
    IN  [i \in 1..n |-> ch[Len(ch) + 1 - i]]

\* reversed(seq)
Reversed(seq) == [i \in 1..Len(seq) |-> seq[Len(seq) + 1 - i]]

\* seq[1:]
AllButFirst(seq) == IF seq = <<>> THEN <<>> ELSE Tail(seq)

\* the truth value of an int used as a condition
Truthy(n) == n # 0

\* MessageRole.ASSISTANT if message.author.id == llm_user_id else MessageRole.USER
HistoryRole(message, llm_user_id) ==
    IF message.author = llm_user_id THEN "assistant" ELSE "user"

RECURSIVE AddAll(_, _, _)
\* session.add_message(...) for each message of a sequence, on an in-memory
\* session
AddAll(session, msgs, llm_user_id) ==
    IF msgs = <<>> THEN session
    ELSE AddAll([session EXCEPT !.messages =
                     Append(@, ChatMessageOf(Head(msgs), HistoryRole(Head(msgs), llm_user_id),
                                             session.name, session.owner_id))],
                Tail(msgs), llm_user_id)

\* Bot.create_temporary_session: the session it returns, or the exception
\* it raises
CreateTemporarySession(session_name, llm_user_id, ch, preserve_last_message, limit) ==
    LET session == InitialSession(FALSE, AdminId, session_name, DefaultModel, "")
        message_limit == limit + (IF Truthy(preserve_last_message) THEN 0 ELSE 1)
        messages_history == History(ch, message_limit)
        s1 == AddAll(session, Reversed(AllButFirst(messages_history)), llm_user_id)
    IN  IF Truthy(preserve_last_message)
        THEN IF messages_history = <<>>
             THEN [session |-> NoSession, raised |-> "IndexError"]
             ELSE [session |-> AddAll(s1, <<messages_history[1]>>, llm_user_id),
                   raised |-> "none"]
        ELSE [session |-> s1, raised |-> "none"]

\* the parameters of process_llm_response
PipelineParameters == {"response_stream", "message", "bot_config", "model_config"}

\* the keyword arguments respond passes to process_llm_response
PipelineKeywords == {"is_chat_response"}

\* a call with a keyword the function does not declare raises TypeError
PipelineCallBinds(keywords) == keywords \subseteq PipelineParameters

\* `except Exception` that also catches the cancellation
ExceptCatches_All(e) == TRUE

\* `except Exception`: asyncio.CancelledError derives from BaseException
ExceptCatches(e) == e # "CancelledError"

\* the configuration and the command message do not change during a task
respondEnv == <<trigger, context_limit, default_prompt, has_template, bot_user, backend_up>>

\* no respond task
RespondIdle ==
    /\ channel = <<>>
    /\ trigger = 0
    /\ arrivals = 0
    /\ context_limit = 0
    /\ default_prompt = ""
    /\ has_template = FALSE
    /\ bot_user = TRUE
    /\ backend_up = TRUE
    /\ r_session = NoSession
    /\ placeholder = <<>>
    /\ backend_calls = <<>>
    /\ r_stream = "none"
    /\ r_read = 0
    /\ r_raised = "none"
    /\ rpc = "idle"

\* a user has posted the command as the newest message of the channel
RespondInit ==
    /\ \E n \in 0..MaxOlder :
          \E authors \in [1..n -> {OtherUserId, BotUserId}] :
              channel = [i \in 1..(n + 1) |->
                            IF i <= n THEN ChannelMessage(i, authors[i])
                            ELSE ChannelMessage(i, UserId)]
    /\ trigger = Len(channel)
    /\ arrivals = 0
    /\ context_limit \in 0..MaxContext
    /\ default_prompt \in ConfiguredPrompts
    /\ has_template \in BOOLEAN
    /\ bot_user \in BOOLEAN
    /\ backend_up \in BOOLEAN
    /\ r_session = NoSession
    /\ placeholder = <<>>
    /\ backend_calls = <<>>
    /\ r_stream = "none"
    /\ r_read = 0
    /\ r_raised = "none"
    /\ rpc = "start"

\* the respond coroutine is suspended in an await
Suspended == rpc \in {"await_reply", "await_reading", "await_history", "await_abort",
                      "await_processing", "await_backend", "await_error_edit",
                      "await_pipeline"}

\* another member posts a message while the task is in flight
OtherMessageArrives ==
    /\ rpc = "start" \/ Suspended
    /\ arrivals < MaxArrivals
    /\ channel' = Append(channel, ChannelMessage(Len(channel) + 1, OtherUserId))
    /\ arrivals' = arrivals + 1
    /\ UNCHANGED <<respondEnv, r_session, placeholder, backend_calls, r_stream, r_read,
                   r_raised, rpc>>
    /\ UNCHANGED <<parserVars, streamVars, storeVars, startupVars, callVars, cacheVars>>

\* response = await ctx.message.reply("*Starting up...*")
RespondReply ==
    /\ rpc = "start"
    /\ channel' = Append(channel, ChannelMessage(Len(channel) + 1, BotUserId))
    /\ placeholder' = <<StartingUpMessage>>
    /\ rpc' = "await_reply"
    /\ UNCHANGED <<respondEnv, arrivals, r_session, backend_calls, r_stream, r_read, r_raised>>
    /\ UNCHANGED <<parserVars, streamVars, storeVars, startupVars, callVars, cacheVars>>

\* the reply message of the task
ReplyMessage == CHOOSE m \in {channel[i] : i \in 1..Len(channel)} :
                    m.id > trigger /\ m.author = BotUserId

\* get_session_for_response, lines 49-55, and respond up to its next await:
\* the edit that follows for a session
AfterSessionFound(session) ==
    IF session.model \notin Catalogue
    THEN /\ placeholder' = Append(placeholder, ModelNotAvailableMessage(session))
         /\ rpc' = "await_abort"
    ELSE /\ placeholder' = Append(placeholder, ProcessingMessage)
         /\ rpc' = "await_processing"

\* get_session_for_response up to its first await: the lookup of the active
\* session and, when there is one, add_message of the command message
RespondGetSession ==
    /\ rpc = "await_reply"
    /\ IF ActiveRowsOf(db_active, UserId) = {}
       THEN /\ placeholder' = Append(placeholder, ReadingHistoryMessage)
            /\ rpc' = "await_reading"
            /\ UNCHANGED <<r_session, r_raised, db_messages>>
       ELSE \E row \in ActiveRowsOf(db_active, UserId) :
                LET obj == InitialSession(TRUE, UserId, row.session_name, "", "")
                    r0 == SaveMessagesOf(obj, db_messages)
                    s1 == [obj EXCEPT !.messages =
                              Append(@, ChatMessageOf(channel[trigger], "user",
                                                      obj.name, obj.owner_id))]
                    r1 == SaveMessagesOf(s1, r0.rows)
                IN  IF r0.raised # "none"
                    THEN /\ r_raised' = r0.raised
                         /\ rpc' = "raised"
                         /\ UNCHANGED <<r_session, placeholder, db_messages>>
                    ELSE IF r1.raised # "none"
                    THEN /\ r_raised' = r1.raised
                         /\ r_session' = s1
                         /\ rpc' = "raised"
                         /\ db_messages' = r0.rows
                         /\ UNCHANGED placeholder
                    ELSE /\ r_session' = s1
                         /\ db_messages' = r1.rows
                         /\ AfterSessionFound(s1)
                         /\ UNCHANGED r_raised
    /\ UNCHANGED <<respondEnv, channel, arrivals, backend_calls, r_stream, r_read>>
    /\ UNCHANGED <<db_sessions, db_active, handles, hpc, raised, last_saved, mark_prior>>
    /\ UNCHANGED <<parserVars, streamVars, startupVars, callVars, cacheVars>>

\* the edit "Reading chat history" has returned: the check of bot.user and
\* the request of the channel history
RespondReadHistory ==
    /\ rpc = "await_reading"
    /\ IF ~bot_user
       THEN /\ placeholder' = Append(placeholder, NotLoggedInMessage)
            /\ rpc' = "await_abort"
       ELSE /\ rpc' = "await_history"
            /\ UNCHANGED placeholder
    /\ UNCHANGED <<respondEnv, channel, arrivals, r_session, backend_calls, r_stream, r_read,
                   r_raised>>
    /\ UNCHANGED <<parserVars, streamVars, storeVars, startupVars, callVars, cacheVars>>

\* the channel history has arrived: the rest of create_temporary_session and
\* of get_session_for_response
RespondCreateTemporarySession ==
    /\ rpc = "await_history"
    /\ LET r == CreateTemporarySession(TempSessionName, BotUserId, channel,
                                       context_limit, context_limit)
       IN  IF r.raised # "none"
           THEN /\ r_raised' = r.raised
                /\ rpc' = "raised"
                /\ UNCHANGED <<r_session, placeholder>>
           ELSE /\ r_session' = r.session
                /\ AfterSessionFound(r.session)
                /\ UNCHANGED r_raised
    /\ UNCHANGED <<respondEnv, channel, arrivals, backend_calls, r_stream, r_read>>
    /\ UNCHANGED <<parserVars, streamVars, storeVars, startupVars, callVars, cacheVars>>

\* the edit that reports the abort has returned: get_session_for_response
\* returns None and respond returns
RespondAbort ==
    /\ rpc = "await_abort"
    /\ rpc' = "done"
    /\ UNCHANGED <<respondEnv, channel, arrivals, r_session, placeholder, backend_calls,
                   r_stream, r_read, r_raised>>
    /\ UNCHANGED <<parserVars, streamVars, storeVars, startupVars, callVars, cacheVars>>

\* the edit "Processing messages" has returned: to_llm_prompt and the call
\* of the backend in a worker thread
RespondCallBackend ==
    /\ rpc = "await_processing"
    /\ backend_calls' = Append(backend_calls, IF has_template THEN "generate" ELSE "chat")
    /\ rpc' = "await_backend"
    /\ UNCHANGED <<respondEnv, channel, arrivals, r_session, placeholder, r_stream, r_read,
                   r_raised>>
    /\ UNCHANGED <<parserVars, streamVars, storeVars, startupVars, callVars, cacheVars>>

\* what the call of the backend may do: return a stream (the request is sent
\* when the stream is first read), fail to connect, or raise another error
BackendOutcomes ==
    IF backend_up THEN {"stream", "ResponseError"} ELSE {"stream", "ConnectError"}

\* the except clauses of respond for exception e raised in the try body
Handled(e) ==
    IF e = "ConnectError"
    THEN /\ placeholder' = Append(placeholder, LlmBackendUnavailableMessage)
         /\ rpc' = "await_error_edit"
         /\ UNCHANGED r_raised
    ELSE IF ExceptCatches(e)
    THEN /\ placeholder' = Append(placeholder, UnknownErrorMessage(e))
         /\ rpc' = "await_error_edit"
         /\ UNCHANGED r_raised
    ELSE /\ r_raised' = e
         /\ rpc' = IF e = "CancelledError" THEN "cancelled" ELSE "raised"
         /\ UNCHANGED placeholder

\* the worker thread has returned: the call of process_llm_response and the
\* except clauses
RespondBackendReturns ==
    /\ rpc = "await_backend"
    /\ \E outcome \in BackendOutcomes :
          IF outcome # "stream"
          THEN /\ Handled(outcome)
               /\ UNCHANGED <<r_stream, r_read>>
          ELSE /\ r_stream' = "open"
               /\ IF ~PipelineCallBinds(PipelineKeywords)
                  THEN /\ Handled("TypeError")
                       /\ UNCHANGED r_read
                  ELSE IF ~backend_up
                  THEN /\ Handled("ConnectError")
                       /\ UNCHANGED r_read
                  ELSE /\ r_read' = 1
                       /\ placeholder' = Append(placeholder, RenderedReplyMessage)
                       /\ rpc' = "await_pipeline"
                       /\ UNCHANGED r_raised
    /\ UNCHANGED <<respondEnv, channel, arrivals, r_session, backend_calls>>
    /\ UNCHANGED <<parserVars, streamVars, storeVars, startupVars, callVars, cacheVars>>

\* the last edit has returned: session.add_message of the reply message
RespondAddReply ==
    /\ rpc \in {"await_error_edit", "await_pipeline"}
    /\ LET s1 == [r_session EXCEPT !.messages =
                     Append(@, ChatMessageOf(ReplyMessage, "assistant",
                                             r_session.name, r_session.owner_id))]
           r == SaveMessagesOf(s1, db_messages)
       IN  /\ r_session' = s1
           /\ db_messages' = r.rows
           /\ r_raised' = r.raised
           /\ rpc' = IF r.raised = "none" THEN "done" ELSE "raised"
    /\ UNCHANGED <<respondEnv, channel, arrivals, placeholder, backend_calls, r_stream, r_read>>
    /\ UNCHANGED <<db_sessions, db_active, handles, hpc, raised, last_saved, mark_prior>>
    /\ UNCHANGED <<parserVars, streamVars, startupVars, callVars, cacheVars>>

\* the task is cancelled while suspended: CancelledError is raised at the
\* await; inside the try body the except clauses see it first
RespondCancel ==
    /\ Suspended
    /\ IF rpc \in {"await_backend", "await_pipeline"}
       THEN Handled("CancelledError")
       ELSE /\ r_raised' = "CancelledError"
            /\ rpc' = "cancelled"
            /\ UNCHANGED placeholder
    /\ UNCHANGED <<respondEnv, channel, arrivals, r_session, backend_calls, r_stream, r_read>>
    /\ UNCHANGED <<parserVars, streamVars, storeVars, startupVars, callVars, cacheVars>>

-----------------------------------------------------------------------------
(* main.py and bot/configuration.py: program start *)

\* the process is still running
NotExited == -1

NoFile == [exists |-> FALSE]

NoConfig == [loaded |-> FALSE]

\* texts of the options of section [bot]; the numeric ones are numerals, as
\* parser.getfloat and parser.getint need them
PrefixTexts == {"", "$"}

DelayTexts == {"-1", "0", "0.5"}

ContextTexts == {"-1", "0", "30"}

PathTexts == {"", "./bot.db"}

\* the names of the [models.<name>] sections of a file
ModelSections == {<<>>, <<"qwen3-8b">>}

\* parser.getfloat("bot", "edit_delay_seconds"), in tenths of a second
GetFloat(text) ==
    CASE text = "-1" -> -10
      [] text = "0" -> 0
      [] text = "0.5" -> 5

\* parser.getint("bot", "max_messages_for_context")
GetInt(text) ==
    CASE text = "-1" -> -1
      [] text = "0" -> 0
      [] text = "30" -> 30

\* Path(session_db_path): pathlib drops a leading "./" and turns "" into "."
PathOf(text) ==
    CASE text = "" -> "."
      [] text = "./bot.db" -> "bot.db"

\* the file Config.write_default_config writes
DefaultConfigFile ==
    [exists |-> TRUE,
     default_model |-> "qwen3-8b",
     model_sections |-> <<"qwen3-8b">>,
     admin_id |-> 12345,
     bot |-> [discord_api_key |-> "your_discord_api_key_here",
              bot_prefix |-> "$",
              edit_delay_seconds |-> "0.5",
              max_messages_for_context |-> "30",
              session_db_path |-> "./bot.db",
              default_system_prompt |-> "You are a Discord bot"]]

\* the files the program may find at DEFAULT_CONFIG_PATH
ConfigFiles ==
    {[DefaultConfigFile EXCEPT !.model_sections = ms,
                               !.bot.bot_prefix = bp,
                               !.bot.edit_delay_seconds = d,
                               !.bot.max_messages_for_context = c,
                               !.bot.session_db_path = sp] :
        ms \in ModelSections, bp \in PrefixTexts, d \in DelayTexts,
        c \in ContextTexts, sp \in PathTexts}

Raise(kind, message) == [raised |-> kind, message |-> message]

\* ModelsConfig.from_config(parser)
ModelsConfigFromConfig(file) ==
    IF \A i \in 1..Len(file.model_sections) : file.model_sections[i] # file.default_model
    THEN Raise("ValueError", "Default model doesn't have a config section in configuration file!")
    ELSE [raised |-> "none", default_model |-> file.default_model,
          models |-> file.model_sections]

\* BotConfig.from_config(parser)
BotConfigFromConfig(section) ==
    IF section.bot_prefix = ""
    THEN Raise("ValueError", "Invalid bot prefix, must not be empty!")
    ELSE IF GetFloat(section.edit_delay_seconds) <= 0
    THEN Raise("ValueError", "Invalid bot edit delay, must be longer than 0 seconds")
    ELSE IF GetInt(section.max_messages_for_context) < 0
    THEN Raise("ValueError", "Invalid context message limit, must be 0 or more")
    ELSE [raised |-> "none",
          discord_api_key |-> section.discord_api_key,
          bot_prefix |-> section.bot_prefix,
          edit_delay |-> GetFloat(section.edit_delay_seconds),
          max_messages_for_context |-> GetInt(section.max_messages_for_context),
          session_db_path |-> PathOf(section.session_db_path),
          default_system_prompt |-> section.default_system_prompt]

\* Config.from_file(config_path)
ConfigFromFile(file) ==
    IF ~file.exists
    THEN Raise("ValueError", "Config file not found or could not be read")
    ELSE LET models_config == ModelsConfigFromConfig(file)
             bot_config == BotConfigFromConfig(file.bot)
         IN  IF models_config.raised # "none" THEN models_config
             ELSE IF bot_config.raised # "none" THEN bot_config
             ELSE [raised |-> "none", loaded |-> TRUE, models |-> models_config,
                   admin |-> [id |-> file.admin_id], bot |-> bot_config]

\* `except RuntimeError as e` of main.py: ValueError is not a RuntimeError
MainExceptCatches(e) == e = "RuntimeError"

StartupInit ==
    /\ config_file \in {NoFile} \cup ConfigFiles
    /\ config = NoConfig
    /\ exit_status = NotExited
    /\ main_raised = "none"
    /\ main_pc = "start"

StartupIdle ==
    /\ config_file = NoFile
    /\ config = NoConfig
    /\ exit_status = NotExited
    /\ main_raised = "none"
    /\ main_pc = "idle"

\* main.py, lines 11-19: load the configuration; the handler writes the
\* example file and exits with status 1; an exception the handler does not
\* catch ends the interpreter with a traceback and status 1
MainLoadConfig ==
    /\ main_pc = "start"
    /\ LET r == ConfigFromFile(config_file)
       IN  IF r.raised = "none"
           THEN /\ config' = r
                /\ main_pc' = "configured"
                /\ UNCHANGED <<config_file, exit_status, main_raised>>
           ELSE IF MainExceptCatches(r.raised)
           THEN /\ config_file' = DefaultConfigFile
                /\ exit_status' = 1
                /\ main_pc' = "exited"
                /\ UNCHANGED <<config, main_raised>>
           ELSE /\ main_raised' = r.raised
                /\ exit_status' = 1
                /\ main_pc' = "exited"
                /\ UNCHANGED <<config, config_file>>
    /\ UNCHANGED <<parserVars, streamVars, storeVars, respondVars, callVars, cacheVars>>

\* main.py, lines 21-38: create the bot and run it
MainRunBot ==
    /\ main_pc = "configured"
    /\ main_pc' = "running"
    /\ UNCHANGED <<config_file, config, exit_status, main_raised>>
    /\ UNCHANGED <<parserVars, streamVars, storeVars, respondVars, callVars, cacheVars>>

-----------------------------------------------------------------------------
(* Functions without state *)

NotCalled == [called |-> FALSE]

CallIdle ==
    /\ call_args = NotCalled
    /\ call_result = NotCalled

RECURSIVE Replace(_, _, _)
\* s.replace(old, new) for a non-empty old: the occurrences are found from
\* left to right and do not overlap
Replace(s, old, new) ==
    LET i == Find(s, old)
    IN  IF i = NoPos THEN s
        ELSE Slice(s, 0, i) \o new \o Replace(SliceFrom(s, i + Len(old)), old, new)

RECURSIVE FormatInt(_)
\* f"{n}" for n >= 0
FormatInt(n) ==
    IF n < 10 THEN <<Digits[n + 1]>>
    ELSE FormatInt(n \div 10) \o <<Digits[(n % 10) + 1]>>

\* f"<@{mention.id}>"
MentionToken(mention) == <<"<", "@">> \o FormatInt(mention.id) \o <<">">>

\* f"<@{mention.name} (UID: {mention.id})>"
MentionWithUsername(mention) ==
    <<"<", "@">> \o mention.name \o <<" ", "(", "U", "I", "D", ":", " ">>
        \o FormatInt(mention.id) \o <<")", ">">>

RECURSIVE TransformMentionsIntoUsernames(_, _)
\* transform_mentions_into_usernames(message, mentions)
TransformMentionsIntoUsernames(message, mentions) ==
    IF mentions = <<>> THEN message
    ELSE TransformMentionsIntoUsernames(
             Replace(message, MentionToken(Head(mentions)), MentionWithUsername(Head(mentions))),
             Tail(mentions))

\* Sequences over S of length at most n
SeqsUpTo(S, n) == UNION {[1..k -> S] : k \in 0..n}

\* the users a message may mention: id and user name
MentionUsers ==
    {[id |-> 5, name |-> <<"a">>],
     [id |-> 7, name |-> <<"b">>],
     [id |-> 5, name |-> <<"7", ">", "x">>]}

\* the parts message texts are made of
MentionTextParts == {<<"<", "@", "5", ">">>, <<"<", "@", "7", ">">>, <<"h", "i", " ">>}

MentionInputs ==
    {[fn |-> "transform_mentions_into_usernames", message |-> Concat(parts), mentions |-> ms] :
        parts \in SeqsUpTo(MentionTextParts, MaxTextParts),
        ms \in SeqsUpTo(MentionUsers, MaxMentions)}

MentionsInit ==
    /\ call_args \in MentionInputs
    /\ call_result = NotCalled

\* text = transform_mentions_into_usernames(message, mentions)
CallTransformMentions ==
    /\ call_args.fn = "transform_mentions_into_usernames"
    /\ call_result = NotCalled
    /\ call_result' = [called |-> TRUE,
                       value |-> TransformMentionsIntoUsernames(call_args.message,
                                                                call_args.mentions)]
    /\ UNCHANGED call_args
    /\ UNCHANGED <<parserVars, streamVars, storeVars, respondVars, startupVars, cacheVars>>

-----------------------------------------------------------------------------
(* bot/configuration.py, bot/chat_model.py and bot/model.py: the model catalogue *)

\* s.startswith(prefix)
StartsWith(s, prefix) == Len(prefix) <= Len(s) /\ SubSeq(s, 1, Len(prefix)) = prefix

\* s.endswith(suffix)
EndsWith(s, suffix) ==
    Len(suffix) <= Len(s) /\ SubSeq(s, Len(s) - Len(suffix) + 1, Len(s)) = suffix

\* an int | None value that is None
NoInt == [some |-> FALSE]

SomeInt(n) == [some |-> TRUE, value |-> n]

\* a ModelConfig | None or ChatModel | None value that is None
NoModel == [absent |-> TRUE]

\* UnknownContextLengthValue of bot/model.py
UnknownContextLengthValue == -1

ContextLengthSuffix ==
    <<"c", "o", "n", "t", "e", "x", "t", "_", "l", "e", "n", "g", "t", "h">>

\* the entries a backend may report in modelinfo
ModelInfoItems ==
    {[key |-> <<"a", ".", "n", "a", "m", "e">>, value |-> 7],
     [key |-> <<"a", ".">> \o ContextLengthSuffix, value |-> 8],
     [key |-> <<"b", ".">> \o ContextLengthSuffix, value |-> 9]}

\* sequences without repetition over S of length at most n
DistinctSeqsUpTo(S, n) ==
    {q \in SeqsUpTo(S, n) : \A i, j \in 1..Len(q) : i # j => q[i] # q[j]}

\* ollama.show(full_name).modelinfo: None or a mapping, in its order
ModelInfos ==
    {[present |-> FALSE, items |-> <<>>]} \cup
    {[present |-> TRUE, items |-> q] : q \in DistinctSeqsUpTo(ModelInfoItems, MaxInfoItems)}

ModelNames == {<<"q">>, <<"q", ":", "8">>, <<"m">>}

ContextLimits == {NoInt, SomeInt(0), SomeInt(5)}

\* a ModelConfig made from section [models.<section>]
ModelConfigOf(section, limit) ==
    [section |-> section, context_limit |-> limit]

\* ModelsConfig.models: the sections in the order of the file
ModelsDicts ==
    {[i \in 1..Len(q) |-> [key |-> q[i], config |-> ModelConfigOf(q[i], NoInt)]] :
        q \in DistinctSeqsUpTo(ModelNames, MaxConfigs)}

\* ollama.list().models
InstalledLists ==
    {[i \in 1..Len(q) |-> [model |-> q[i], modelinfo |-> [present |-> FALSE, items |-> <<>>]]] :
        q \in DistinctSeqsUpTo(ModelNames, MaxInstalled)}

RECURSIVE GetModelConfig(_, _)
\* ModelsConfig.get_model_config(full_model_name)
GetModelConfig(models, full_model_name) ==
    IF models = <<>> THEN NoModel
    ELSE IF StartsWith(full_model_name, Head(models).key) THEN Head(models).config
    ELSE GetModelConfig(Tail(models), full_model_name)

\* configs.models.get(model_name, None)
DictGet(models, model_name) ==
    IF \E i \in 1..Len(models) : models[i].key = model_name
    THEN models[CHOOSE i \in 1..Len(models) : models[i].key = model_name].config
    ELSE NoModel

RECURSIVE FindContextLengthOrNone(_)
\* find_context_length of ChatModel.from_ollama_model
FindContextLengthOrNone(items) ==
    IF items = <<>> THEN NoInt
    ELSE IF EndsWith(Head(items).key, ContextLengthSuffix) THEN SomeInt(Head(items).value)
    ELSE FindContextLengthOrNone(Tail(items))

RECURSIVE FindContextLength(_)
\* find_context_length of bot/model.py
FindContextLength(items) ==
    IF items = <<>> THEN UnknownContextLengthValue
    ELSE IF EndsWith(Head(items).key, ContextLengthSuffix) THEN Head(items).value
    ELSE FindContextLength(Tail(items))

\* split_model_name(full_name): the parts around a single ":"
SplitModelName(full_name) ==
    LET colons == {i \in 1..Len(full_name) : full_name[i] = ":"}
    IN  IF Cardinality(colons) = 1
        THEN LET i == CHOOSE c \in colons : TRUE
             IN  [name |-> SubSeq(full_name, 1, i - 1),
                  tag |-> SubSeq(full_name, i + 1, Len(full_name))]
        ELSE IF Cardinality(colons) = 0 THEN [name |-> full_name, tag |-> NoTag]
        ELSE [name |-> NoTag, tag |-> NoTag]

\* ChatModel.from_ollama_model(ollama_model, model_config); ollama_model
\* carries what ollama.show reports for it
FromOllamaModel(ollama_model, model_config) ==
    LET ctx_length == IF ollama_model.modelinfo.present
                      THEN FindContextLengthOrNone(ollama_model.modelinfo.items)
                      ELSE NoInt
        parts == SplitModelName(ollama_model.model)
    IN  [name |-> parts.name, tag |-> parts.tag,
         context_length |-> IF model_config.context_limit.some
                            THEN model_config.context_limit ELSE ctx_length,
         config |-> model_config]

RECURSIVE GetAllModels(_, _)
\* get_all_models(configs), with ollama.list().models as first argument
GetAllModels(installed, models) ==
    IF installed = <<>> THEN <<>>
    ELSE LET model_config == DictGet(models, Head(installed).model)
             rest == GetAllModels(Tail(installed), models)
         IN  IF model_config # NoModel
             THEN <<FromOllamaModel(Head(installed), model_config)>> \o rest
             ELSE rest

RECURSIVE GetModel(_, _, _)
\* get_model(name, configs), with ollama.list().models as first argument;
\* no key of configs.models is ""
GetModel(installed, name, models) ==
    IF installed = <<>> THEN NoModel
    ELSE LET model_config == IF StartsWith(Head(installed).model, name)
                             THEN DictGet(models, Head(installed).model)
                             ELSE NoModel
         IN  IF model_config # NoModel
             THEN FromOllamaModel(Head(installed), model_config)
             ELSE GetModel(Tail(installed), name, models)

CatalogueInputs ==
    {[fn |-> "get_model_config", models |-> d, full_model_name |-> n] :
        d \in ModelsDicts, n \in ModelNames}
    \cup {[fn |-> "get_all_models", installed |-> l, models |-> d] :
        l \in InstalledLists, d \in ModelsDicts}
    \cup {[fn |-> "get_model", installed |-> l, name |-> n, models |-> d] :
        l \in InstalledLists, n \in ModelNames, d \in ModelsDicts}
    \cup {[fn |-> "from_ollama_model",
           ollama_model |-> [model |-> n, modelinfo |-> info],
           model_config |-> ModelConfigOf(n, limit)] :
        n \in ModelNames, info \in ModelInfos, limit \in ContextLimits}
    \cup {[fn |-> "find_context_length", info |-> info.items] :
        info \in {i \in ModelInfos : i.present}}

CatalogueInit ==
    /\ call_args \in CatalogueInputs
    /\ call_result = NotCalled

Returned(value) == [called |-> TRUE, value |-> value]

\* config = configs.get_model_config(full_model_name)
CallGetModelConfig ==
    /\ call_args.fn = "get_model_config" /\ call_result = NotCalled
    /\ call_result' = Returned(GetModelConfig(call_args.models, call_args.full_model_name))
    /\ UNCHANGED call_args
    /\ UNCHANGED <<parserVars, streamVars, storeVars, respondVars, startupVars, cacheVars>>

\* models = get_all_models(configs)
CallGetAllModels ==
    /\ call_args.fn = "get_all_models" /\ call_result = NotCalled
    /\ call_result' = Returned(GetAllModels(call_args.installed, call_args.models))
    /\ UNCHANGED call_args
    /\ UNCHANGED <<parserVars, streamVars, storeVars, respondVars, startupVars, cacheVars>>

\* model = get_model(name, configs)
CallGetModel ==
    /\ call_args.fn = "get_model" /\ call_result = NotCalled
    /\ call_result' = Returned(GetModel(call_args.installed, call_args.name, call_args.models))
    /\ UNCHANGED call_args
    /\ UNCHANGED <<parserVars, streamVars, storeVars, respondVars, startupVars, cacheVars>>

\* chat_model = ChatModel.from_ollama_model(ollama_model, model_config)
CallFromOllamaModel ==
    /\ call_args.fn = "from_ollama_model" /\ call_result = NotCalled
    /\ call_result' = Returned(FromOllamaModel(call_args.ollama_model, call_args.model_config))
    /\ UNCHANGED call_args
    /\ UNCHANGED <<parserVars, streamVars, storeVars, respondVars, startupVars, cacheVars>>

\* ctx_length = find_context_length(model_info.modelinfo) of bot/model.py
CallFindContextLength ==
    /\ call_args.fn = "find_context_length" /\ call_result = NotCalled
    /\ call_result' = Returned(FindContextLength(call_args.info))
    /\ UNCHANGED call_args
    /\ UNCHANGED <<parserVars, streamVars, storeVars, respondVars, startupVars, cacheVars>>

-----------------------------------------------------------------------------
(* bot/__init__.py: the session cache of the Bot object *)

\* the result None of a lookup
NoObject == 0

CacheIdle ==
    /\ bot_sessions = <<>>
    /\ lookups = <<>>
    /\ next_obj = 1

\* the positions of self.sessions that Bot.find_session compares equal
CachedPositions(session_name, owner_id) ==
    {i \in 1..Len(bot_sessions) :
        /\ bot_sessions[i].session.name = session_name
        /\ bot_sessions[i].session.owner_id = owner_id}

\* the record of a lookup that returned object obj, or NoObject
Lookup(fn, owner_id, name, obj) == [fn |-> fn, owner_id |-> owner_id, name |-> name, obj |-> obj]

\* session = bot.load_session_from_db(session_name, owner_id)
LoadSessionFromDb(session_name, owner_id) ==
    /\ Len(lookups) < MaxLookups
    /\ LET fn == "load_session_from_db"
           found == CachedPositions(session_name, owner_id)
       IN  IF found # {}
           THEN /\ lookups' = Append(lookups,
                       Lookup(fn, owner_id, session_name,
                              bot_sessions[CHOOSE i \in found : \A j \in found : i <= j].obj))
                /\ raised' = "none"
                /\ UNCHANGED <<bot_sessions, next_obj, db_messages>>
           ELSE LET obj == InitialSession(TRUE, owner_id, session_name, "", "")
                    r == SaveMessagesOf(obj, db_messages)
                IN  /\ db_messages' = r.rows
                    /\ raised' = r.raised
                    /\ IF r.raised # "none" \/ ~SessionStored(db_sessions, owner_id, session_name)
                       THEN /\ lookups' = Append(lookups,
                                   Lookup(fn, owner_id, session_name, NoObject))
                            /\ UNCHANGED <<bot_sessions, next_obj>>
                       ELSE /\ \E loaded \in LoadedSessions(obj, db_sessions, r.rows) :
                                   bot_sessions' = Append(bot_sessions,
                                       [obj |-> next_obj, session |-> loaded])
                            /\ lookups' = Append(lookups,
                                   Lookup(fn, owner_id, session_name, next_obj))
                            /\ next_obj' = next_obj + 1
    /\ UNCHANGED <<db_sessions, db_active, handles, hpc, last_saved, mark_prior>>
    /\ UNCHANGED <<parserVars, streamVars, respondVars, startupVars, callVars>>

\* session = bot.get_active_user_session(user_id)
GetActiveUserSession(user_id) ==
    /\ Len(lookups) < MaxLookups
    /\ LET fn == "get_active_user_session"
       IN  IF ActiveRowsOf(db_active, user_id) = {}
           THEN /\ lookups' = Append(lookups, Lookup(fn, user_id, "", NoObject))
                /\ raised' = "none"
                /\ UNCHANGED <<db_messages, next_obj>>
           ELSE \E row \in ActiveRowsOf(db_active, user_id) :
                    LET obj == InitialSession(TRUE, user_id, row.session_name, "", "")
                        r == SaveMessagesOf(obj, db_messages)
                    IN  /\ db_messages' = r.rows
                        /\ raised' = r.raised
                        /\ IF r.raised # "none"
                           THEN /\ lookups' = Append(lookups,
                                       Lookup(fn, user_id, row.session_name, NoObject))
                                /\ UNCHANGED next_obj
                           ELSE /\ lookups' = Append(lookups,
                                       Lookup(fn, user_id, row.session_name, next_obj))
                                /\ next_obj' = next_obj + 1
    /\ UNCHANGED bot_sessions
    /\ UNCHANGED <<db_sessions, db_active, handles, hpc, last_saved, mark_prior>>
    /\ UNCHANGED <<parserVars, streamVars, respondVars, startupVars, callVars>>

-----------------------------------------------------------------------------
(* Properties of the incremental parser *)

TagsSet == llm.thinking_start_tag # NoTag /\ llm.thinking_end_tag # NoTag

\* the text streamed so far
FedText == Concat(fed)

StartAppeared == Find(FedText, StartTag) # NoPos

EndAppeared == Find(FedText, EndTag) # NoPos

\* the text that follows the first start tag
AfterStart == SliceFrom(FedText, Find(FedText, StartTag) + Len(StartTag))

\* the start tag and, later, the end tag have appeared (and no end tag
\* before the start tag)
BothAppeared ==
    /\ StartAppeared
    /\ Find(FedText, EndTag) > Find(FedText, StartTag)

\* the chunks received before the first chunk that carries the start tag
ChunksBeforeStart ==
    LET carriers == {i \in 1..Len(fed) : Find(fed[i], StartTag) # NoPos}
        first == CHOOSE i \in carriers : \A j \in carriers : i <= j
    IN  IF carriers = {} THEN fed ELSE SubSeq(fed, 1, first - 1)

\* C4: once the whole text is fed, the final (thoughts, content) is the one
\* every other split of the same text (no tag cut by a chunk boundary) gives.
C4_SplitIndependence ==
    (pending = <<>> /\ TagsSet) =>
        \A other \in Splits(text_pieces) :
            LET r == AppendAll(NewLLMResponse(StartTag, EndTag), other)
            IN  <<r.thoughts, r.content>> = <<llm.thoughts, llm.content>>

\* C5: when the start tag and later the end tag have appeared, thoughts is
\* the text between them stripped on both sides and content is the text after
\* the end tag stripped on the left.
C5_BothTagsStripped ==
    (TagsSet /\ BothAppeared) =>
        LET ep == Find(AfterStart, EndTag)
        IN  /\ llm.thoughts = Strip(Slice(AfterStart, 0, ep))
            /\ llm.content = LStrip(SliceFrom(AfterStart, ep + Len(EndTag)))

\* C6 as stated: start tag seen and end tag not seen implies thinking is in
\* progress and content is empty.
C6_ContentEmptyWhileThinking ==
    (TagsSet /\ StartAppeared /\ ~EndAppeared) =>
        thinking_in_progress(llm) /\ llm.content = <<>>

\* C6 amended: start tag seen and end tag not seen implies thinking is in
\* progress and content is exactly the text of the chunks received before the
\* chunk carrying the start tag (empty when that chunk came first).
C6_ContentIsPrefixWhileThinking ==
    (TagsSet /\ StartAppeared /\ ~EndAppeared) =>
        /\ thinking_in_progress(llm)
        /\ llm.content = Concat(ChunksBeforeStart)
        /\ (Find(fed[1], StartTag) # NoPos => llm.content = <<>>)

C6_Witness ==
    /\ TagsSet /\ StartAppeared /\ ~EndAppeared
    /\ Len(fed) >= 3
    /\ ChunksBeforeStart # <<>>
    /\ llm.thoughts # <<>>

\* C20: when a thinking tag is unset or the end tag was consumed, append
\* adds the chunk unchanged to content and changes nothing else, whatever
\* the chunk holds.
C20_VerbatimWithoutTagsOrDone ==
    [][( /\ AppendChunk
         /\ \/ llm.thinking_start_tag = NoTag
            \/ llm.thinking_end_tag = NoTag
            \/ llm.thinking_finished )
       => llm' = [llm EXCEPT !.content = @ \o Head(pending)]]_vars

\* the end tag was consumed by an earlier chunk and the latest chunk, a start
\* tag, is the end of content
C20_Witness ==
    /\ TagsSet /\ llm.thinking_finished
    /\ Len(fed) >= 2
    /\ \E i \in 1..(Len(fed) - 1) : Find(fed[i], EndTag) # NoPos
    /\ fed[Len(fed)] = StartTag
    /\ Len(llm.content) >= Len(StartTag)
    /\ SubSeq(llm.content, Len(llm.content) - Len(StartTag) + 1, Len(llm.content)) = StartTag

\* C32: while thinking is in progress, append of a chunk without the end
\* tag adds the whole chunk to thoughts, leaves content alone and stays in
\* progress, also when the chunk holds the start tag again; a chunk with the
\* end tag adds the right-trimmed text before the tag to thoughts, finishes
\* thinking and adds the left-trimmed text after the tag to content.
C32_ThinkingStateAppend ==
    [][(AppendChunk /\ TagsSet /\ thinking_in_progress(llm)) =>
          LET chunk == Head(pending)
              e == Find(chunk, EndTag)
          IN  IF e = NoPos
              THEN /\ llm'.thoughts = llm.thoughts \o chunk
                   /\ llm'.content = llm.content
                   /\ thinking_in_progress(llm')
              ELSE /\ llm'.thoughts = llm.thoughts \o RStrip(Slice(chunk, 0, e))
                   /\ llm'.thinking_finished
                   /\ llm'.content = llm.content \o LStrip(SliceFrom(chunk, e + Len(EndTag)))]_vars

\* an optional string, with None read as the empty string
OrEmpty(x) == IF x = None THEN <<>> ELSE x

\* the characters of s that are not whitespace, in order
NonSpace(s) == SelectSeq(s, LAMBDA c : ~IsSpace(c))

\* s without the first occurrence of tag
WithoutFirst(s, tag) ==
    LET i == Find(s, tag)
    IN  IF i = NoPos THEN s
        ELSE Slice(s, 0, i) \o SliceFrom(s, i + Len(tag))

\* x is an interleaving of a and b that keeps the order of each
RECURSIVE IsMerge(_, _, _)
IsMerge(x, a, b) ==
    IF x = <<>> THEN a = <<>> /\ b = <<>>
    ELSE \/ a # <<>> /\ Head(a) = Head(x) /\ IsMerge(Tail(x), Tail(a), b)
         \/ b # <<>> /\ Head(b) = Head(x) /\ IsMerge(Tail(x), a, Tail(b))

\* C33: the parser discards no non-whitespace text: once every chunk is
\* fed, the non-whitespace characters of the input outside the first start
\* tag and the first end tag are exactly the non-whitespace characters of
\* thoughts and content, each in input order.
C33_NoTextDiscarded ==
    pending = <<>> =>
        LET text == IF TagsSet
                    THEN WithoutFirst(WithoutFirst(FedText, EndTag), StartTag)
                    ELSE FedText
        IN  IsMerge(NonSpace(text), NonSpace(llm.thoughts), NonSpace(llm.content))

\* C35: once every chunk is fed, the incremental parser holds the thoughts
\* and content that the one-shot parser of response.py extracts from the
\* concatenation of the chunks, None of the one-shot parser read as "".
C35_IncrementalEqualsOneShot ==
    pending = <<>> =>
        LET whole == WholeTextResponse(FedText, [start |-> llm.thinking_start_tag,
                                                 end |-> llm.thinking_end_tag])
        IN  /\ llm.thoughts = OrEmpty(whole.thoughts)
            /\ llm.content = OrEmpty(whole.content)

\* C34: thinking_finished implies thinking_started, no flag is ever reset,
\* and an end tag that arrives before any start tag neither finishes
\* thinking nor puts the text before it into thoughts.
C34_DoneOnlyAfterStart ==
    /\ [](llm.thinking_finished => llm.thinking_started)
    /\ [][/\ llm.thinking_started => llm'.thinking_started
          /\ llm.thinking_finished => llm'.thinking_finished]_vars
    /\ [][(AppendChunk /\ TagsSet /\ ~llm.thinking_started
             /\ Find(Head(pending), StartTag) = NoPos) =>
              /\ ~llm'.thinking_finished
              /\ llm'.thoughts = llm.thoughts]_vars

-----------------------------------------------------------------------------
(* Properties of the streaming pipeline *)

FinalEdits == {i \in 1..Len(edits) : edits[i].final}

\* C7 as stated: after a normal end of a stream that produced text there is
\* exactly one final edit, it is the last edit and it renders the whole
\* stream; after a stream without text there is no edit at all.
C7_FinalEditOrNoEdit ==
    spc = "done" =>
        IF Concat(consumed) # <<>>
        THEN /\ FinalEdits = {Len(edits)}
             /\ edits[Len(edits)].content = ProcessRawResponse(Concat(consumed), model_tags)
        ELSE edits = <<>>

\* C7 amended: as above, but after a stream without text there is no FINAL
\* edit (periodic edits may have been issued while empty chunks arrived).
C7_FinalEditOrNoFinalEdit ==
    spc = "done" =>
        IF Concat(consumed) # <<>>
        THEN /\ FinalEdits = {Len(edits)}
             /\ edits[Len(edits)].content = ProcessRawResponse(Concat(consumed), model_tags)
        ELSE FinalEdits = {}

C7_Witness ==
    /\ spc = "done"
    /\ Concat(consumed) # <<>>
    /\ Len(edits) >= 2
    /\ edits[Len(edits)].final
    /\ edits[Len(edits)].content # edits[1].content

\* C8 as stated: any two successive edits, the final one included, are at
\* least edit_delay apart.
C8_AllEditsSpaced ==
    \A i \in 1..(Len(edits) - 1) : edits[i + 1].time - edits[i].time >= edit_delay

\* C8 amended: any two successive edits issued inside the chunk loop are at
\* least edit_delay apart, and the first one comes at least edit_delay after
\* the start; the final edit is issued without waiting.
C8_LoopEditsSpaced ==
    /\ \A i \in 1..(Len(edits) - 1) :
           ~edits[i + 1].final => edits[i + 1].time - edits[i].time >= edit_delay
    /\ (edits # <<>> /\ ~edits[1].final) => edits[1].time >= edit_delay

C8_Witness ==
    /\ Len(edits) >= 3
    /\ ~edits[2].final
    /\ edits[3].final
    /\ edits[3].time - edits[2].time < edit_delay

\* C9: no edit carries more than 2000 characters.
C9_EditsWithinLimit ==
    \A i \in 1..Len(edits) : Len(edits[i].content) <= DiscordMessageLimit

\* the reply text that C19 gives for a pair (thoughts, content)
RenderedAsStated(thoughts, content) ==
    IF content # <<>>
    THEN IF thoughts # <<>>
         THEN <<"*">> \o thoughts \o <<"*", "\n", "\n">> \o content
         ELSE content
    ELSE IF thoughts # <<>>
    THEN <<"*">> \o thoughts \o <<"*">>
    ELSE <<"*">> \o WaitingText \o <<"*">>

\* C19: the text of every edit is the stated function of the (thoughts,
\* content) parsed from the text streamed so far; with both empty it is
\* "*Waiting for response...*".
C19_RenderedFromThoughtsAndContent ==
    \A i \in 1..Len(edits) :
        LET r == WholeTextResponse(edits[i].raw, model_tags)
        IN  edits[i].content = RenderedAsStated(OrEmpty(r.thoughts), OrEmpty(r.content))

\* the pipeline has asked the iterator for a chunk the backend has yet to send
WaitingForChunk == spc = "loop" /\ stream # <<>>

\* C39: while the pipeline waits for its next chunk, another task of the
\* event loop can take a step.
C39_ChunkReadIsSuspensionPoint ==
    (WaitingForChunk /\ other_steps < MaxOtherSteps) => ENABLED OtherTaskStep

-----------------------------------------------------------------------------
(* Properties of the sessions and their store *)

SameKey(s1, s2) == s1.owner_id = s2.owner_id /\ s1.name = s2.name

\* res holds exactly the messages of msgs, ordered by timestamp ascending
SortedByTimestamp(res, msgs) ==
    /\ Len(res) = Len(msgs)
    /\ \E perm \in [1..Len(msgs) -> 1..Len(msgs)] :
           /\ \A i, j \in 1..Len(msgs) : i # j => perm[i] # perm[j]
           /\ \A i \in 1..Len(msgs) : res[i] = msgs[perm[i]]
    /\ \A i, j \in 1..Len(res) : i < j => res[i].timestamp <= res[j].timestamp

\* C1: when save() of a persistent session was the latest write and a fresh
\* object for the same (owner_id, name) calls load(), the loaded object has
\* the saved object's messages sorted by timestamp and its model and prompt.
C1_SaveLoadRoundTrip ==
    [][\A h1, h2 \in Handles :
          ( /\ h1 # h2
            /\ last_saved = h1
            /\ IsSession(handles[h1]) /\ IsSession(handles[h2])
            /\ SameKey(handles[h1], handles[h2])
            /\ handles[h2] = InitialSession(TRUE, handles[h1].owner_id, handles[h1].name, "", "")
            /\ Load(h2) )
          => /\ handles'[h2].model = handles[h1].model
             /\ handles'[h2].system_prompt = handles[h1].system_prompt
             /\ SortedByTimestamp(handles'[h2].messages, handles[h1].messages)]_vars

\* C2: active_sessions never holds two rows of one owner.
C2_OneActiveRowPerOwner ==
    \A o \in Owners : Cardinality(ActiveRowsOf(db_active, o)) <= 1

\* C3: while mark_as_active replaces an owner's active session, the store
\* never shows zero or two active rows for that owner.
C3_MarkAsActiveAtomic ==
    \A h \in Handles :
        (hpc[h] = "mark_insert" /\ mark_prior[h]) =>
            Cardinality(ActiveRowsOf(db_active, handles[h].owner_id)) = 1

\* C22: assigning system_prompt = p right after system_prompt = p changes
\* nothing: the prompt, the message list, the stored rows and the outcome of
\* the call are those of the first assignment, for every p, "" included.
C22_SystemPromptIdempotent ==
    [][\A h \in Handles, p \in Prompts :
          SetSystemPrompt(h, p) =>
              LET again == AssignSystemPrompt(handles'[h], p, db_sessions', db_messages')
              IN  /\ again.session = handles'[h]
                  /\ again.sessions = db_sessions'
                  /\ again.rows = db_messages'
                  /\ again.raised = raised']_vars

\* a prompt has been assigned to a session that holds a message of its own:
\* the list is the system message followed by that message
C22_Witness ==
    /\ IsSession(handles[1]) /\ handles[1].system_prompt = "Q"
    /\ Len(handles[1].messages) = 2
    /\ handles[1].messages[1] = SystemMessage(handles[1])
    /\ handles[1].messages[2].role # "system"

ActiveRowOf(s) == [owner_id |-> s.owner_id, session_name |-> s.name]

\* C21: with no call in progress, mark_as_active() of a session B of an
\* owner whose active session is A leaves exactly one active_sessions row for
\* that owner, the row of B, and leaves the rows of every other owner as
\* they were.
C21_SequentialMarkAsActive ==
    [][\A h \in Handles :
          MarkAsActive(h) =>
              /\ ActiveRowsOf(db_active', handles[h].owner_id) = {ActiveRowOf(handles[h])}
              /\ \A o \in Owners \ {handles[h].owner_id} :
                     ActiveRowsOf(db_active', o) = ActiveRowsOf(db_active, o)]_vars

\* session B has just replaced session A as the active one of owner 1 while
\* owner 2 has an active session of its own
C21_Witness ==
    \E h \in Handles :
        /\ Idle(h) /\ IsSession(handles[h]) /\ mark_prior[h]
        /\ handles[h].owner_id = 1 /\ handles[h].name = "B"
        /\ ActiveRowsOf(db_active, 1) = {ActiveRowOf(handles[h])}
        /\ ActiveRowsOf(db_active, 2) # {}

SystemPositions(msgs) == {i \in 1..Len(msgs) : msgs[i].role = "system"}

IsPrefix(s, t) == Len(s) <= Len(t) /\ SubSeq(t, 1, Len(s)) = s

\* C10: a session holds at most one system message; it is there iff the
\* system prompt is non-empty, it is first and carries the current prompt; a
\* step only appends to the non-system messages (a new object starts empty).
C10_SingleSystemMessageFirst ==
    /\ [](\A h \in Handles :
            IsSession(handles[h]) =>
                LET s == handles[h]
                IN  /\ Cardinality(SystemPositions(s.messages)) <= 1
                    /\ (SystemPositions(s.messages) # {}) <=> (s.system_prompt # "")
                    /\ s.system_prompt # "" =>
                           /\ SystemPositions(s.messages) = {1}
                           /\ s.messages[1].content = s.system_prompt)
    /\ [][\A h \in Handles :
            \/ IsPrefix(WithoutSystem(handles[h].messages), WithoutSystem(handles'[h].messages))
            \/ WithoutSystem(handles'[h].messages) = <<>>]_vars

C10_Witness ==
    /\ IsSession(handles[1])
    /\ handles[1].system_prompt = "Q"
    /\ Len(handles[1].messages) = 3
    /\ handles[1].messages[1].role = "system"
    /\ handles[1].messages[1].content = "Q"
    /\ handles[1].messages[2].id = 2
    /\ handles[1].messages[3].id = 1

\* the timestamps of a message list never decrease
TimestampAscending(msgs) ==
    \A i, j \in 1..Len(msgs) : i < j => msgs[i].timestamp <= msgs[j].timestamp

\* C11: in every state the messages of a session are ordered by timestamp
\* ascending, and a system message, if there is one, is the only one and is
\* first.
C11_MessagesOrderedByTimestamp ==
    \A h \in Handles :
        IsSession(handles[h]) =>
            /\ TimestampAscending(handles[h].messages)
            /\ Cardinality(SystemPositions(handles[h].messages)) <= 1
            /\ SystemPositions(handles[h].messages) \subseteq {1}

\* the message ids stored for a session key
StoredIds(db_msgs, owner_id, name) == {r.id : r \in MessageRowsOf(db_msgs, owner_id, name)}

\* the message ids of an in-memory list
MemoryIds(msgs) == {msgs[i].id : i \in 1..Len(msgs)}

\* C12: when add_message or a system_prompt assignment on a persistent
\* session has ended, the ids stored for its (owner_id, session_name) are the
\* ids of its in-memory list, and the rows of other sessions are as before.
C12_StoreMatchesMemory ==
    [][\A h \in Handles :
          ( /\ IsSession(handles[h]) /\ handles[h].persistent
            /\ \/ \E id \in MsgIds : AddMessage(h, id)
               \/ \E p \in Prompts : SetSystemPrompt(h, p) )
          => LET o == handles[h].owner_id
                 n == handles[h].name
             IN  /\ StoredIds(db_messages', o, n) = MemoryIds(handles'[h].messages)
                 /\ db_messages' \ MessageRowsOf(db_messages', o, n)
                        = db_messages \ MessageRowsOf(db_messages, o, n)]_vars

\* C13: delete() of session (o, n) leaves no sessions row, no messages row
\* and no active_sessions row of (o, n), and leaves every row of another
\* session and every active pointer naming another session as it was.
C13_DeleteCascades ==
    [][\A h \in Handles :
          Delete(h) =>
              LET o == handles[h].owner_id
                  n == handles[h].name
              IN  /\ ~\E r \in db_sessions' : r.owner_id = o /\ r.name = n
                  /\ MessageRowsOf(db_messages', o, n) = {}
                  /\ ~\E r \in db_active' : r.owner_id = o /\ r.session_name = n
                  /\ db_sessions' = {r \in db_sessions : ~(r.owner_id = o /\ r.name = n)}
                  /\ db_messages' = db_messages \ MessageRowsOf(db_messages, o, n)
                  /\ db_active' = {r \in db_active : ~(r.owner_id = o /\ r.session_name = n)}]_vars

\* session (1, "A") was given a model, which wrote its sessions row, and the
\* row is gone again together with its active pointer, while session (1, "B")
\* still has its sessions row and is the active one
C13_Witness ==
    /\ \E h \in Handles :
          /\ IsSession(handles[h])
          /\ handles[h].owner_id = 1 /\ handles[h].name = "A"
          /\ handles[h].model = "m"
    /\ ~\E r \in db_sessions : r.owner_id = 1 /\ r.name = "A"
    /\ db_sessions # {}
    /\ db_active = {[owner_id |-> 1, session_name |-> "B"]}

C30_ConcurrentAddsBothStored ==
    [][\A h1, h2 \in Handles, id1, id2 \in MsgIds :
          (/\ h1 # h2 /\ id1 # id2
           /\ IsSession(handles[h1]) /\ IsSession(handles[h2])
           /\ handles[h1].persistent /\ handles[h2].persistent
           /\ SameKey(handles[h1], handles[h2])
           /\ id1 \in MemoryIds(handles[h1].messages)
           /\ AddMessage(h2, id2)) =>
              {id1, id2} \subseteq
                  StoredIds(db_messages', handles[h2].owner_id, handles[h2].name)]_vars

\* C36: when a session already has a non-empty system prompt, assigning a
\* non-empty system prompt to another persistent session raises nothing,
\* stores that session's system message (id -1) and keeps the system message
\* rows of every other session.
C36_TwoSystemPromptsStored ==
    [][\A h \in Handles, p \in StoredPrompts :
          (/\ p # ""
           /\ IsSession(handles[h]) /\ handles[h].persistent
           /\ \E g \in Handles :
                  /\ IsSession(handles[g]) /\ handles[g].persistent
                  /\ ~SameKey(handles[g], handles[h])
                  /\ handles[g].system_prompt # ""
           /\ SetSystemPrompt(h, p)) =>
              /\ raised' = "none"
              /\ \E r \in MessageRowsOf(db_messages', handles[h].owner_id, handles[h].name) :
                     r.id = SystemMessageId /\ r.content = p
              /\ \A r \in db_messages :
                     (/\ r.id = SystemMessageId
                      /\ ~(r.owner_id = handles[h].owner_id
                           /\ r.session_name = handles[h].name)) => r \in db_messages']_vars

\* C37: every messages row and every active_sessions row refers to a
\* sessions row with the same (owner_id, session_name).
C37_ReferentialIntegrity ==
    /\ \A r \in db_messages : SessionStored(db_sessions, r.owner_id, r.session_name)
    /\ \A r \in db_active : SessionStored(db_sessions, r.owner_id, r.session_name)

\* the lookups that returned a session
ReturnedLookups == {i \in 1..Len(lookups) : lookups[i].obj # NoObject}

\* C40: all session objects returned by lookups for one (owner_id, name) are
\* one object, that object is in the cache, and the cache holds one object
\* per key; a load_session_from_db whose load finds no stored session
\* returns nothing and leaves the cache as it was.
C40_OneInstancePerKey ==
    /\ [](/\ \A i, j \in ReturnedLookups :
                 (lookups[i].owner_id = lookups[j].owner_id
                  /\ lookups[i].name = lookups[j].name) => lookups[i].obj = lookups[j].obj
          /\ \A i \in ReturnedLookups :
                 \E k \in 1..Len(bot_sessions) : bot_sessions[k].obj = lookups[i].obj
          /\ \A n \in Names, o \in Owners : Cardinality(CachedPositions(n, o)) <= 1)
    /\ [][\A n \in Names, o \in Owners :
              (LoadSessionFromDb(n, o) /\ ~SessionStored(db_sessions, o, n)
                 /\ CachedPositions(n, o) = {}) =>
                  /\ bot_sessions' = bot_sessions
                  /\ lookups'[Len(lookups')].obj = NoObject]_vars

-----------------------------------------------------------------------------
(* Properties of the respond command *)

\* the respond task holds a temporary session
HasTemporarySession == IsSession(r_session) /\ ~r_session.persistent

\* the positions of a message list that hold the command message
TriggerPositions(msgs) == {i \in 1..Len(msgs) : msgs[i].id = trigger}

\* the positions that hold history: neither the system message nor the
\* command message
HistoryPositions(msgs) ==
    {i \in 1..Len(msgs) : msgs[i].role # "system" /\ msgs[i].id # trigger}

\* C14: the temporary session that is forwarded to the backend holds the
\* command message exactly once and at most max_messages_for_context
\* history messages, in chronological order.
C14_TemporaryContext ==
    (rpc = "await_backend" /\ HasTemporarySession) =>
        /\ Cardinality(TriggerPositions(r_session.messages)) = 1
        /\ Cardinality(HistoryPositions(r_session.messages)) <= context_limit
        /\ TimestampAscending(r_session.messages)

\* C15: a temporary session has the admin as owner, the name Temp-<channel
\* id>, the default model and the configured default system prompt, and
\* with a non-empty prompt its first message is the system message.
C15_TemporarySessionMetadata ==
    HasTemporarySession =>
        /\ r_session.owner_id = AdminId
        /\ r_session.name = TempSessionName
        /\ r_session.model = DefaultModel
        /\ r_session.system_prompt = default_prompt
        /\ default_prompt # "" =>
               /\ r_session.messages # <<>>
               /\ r_session.messages[1].role = "system"
               /\ r_session.messages[1].content = default_prompt

\* the task has ended by a return or by an exception other than cancellation
RespondEnded == rpc \in {"done", "raised"}

\* C16: when the task has ended with a session whose model is not in the
\* catalogue, the reply message shows a text that pings the admin and the
\* backend was never called.
C16_UnknownModelPingsAdmin ==
    (RespondEnded /\ IsSession(r_session) /\ r_session.model \notin Catalogue) =>
        /\ placeholder # <<>>
        /\ AdminId \in placeholder[Len(placeholder)].mentions
        /\ backend_calls = <<>>

\* C17: when the task has ended after calling a backend that could not be
\* connected to, the reply message shows the fixed backend-unavailable text;
\* when it ended without a reply from a reachable backend, it shows the
\* unknown-error text with the detail of the exception.
C17_BackendFailureMessages ==
    (rpc = "done" /\ backend_calls # <<>>) =>
        /\ ~backend_up => placeholder[Len(placeholder)] = LlmBackendUnavailableMessage
        /\ (backend_up /\ r_read = 0) =>
               \E e \in {"ResponseError", "TypeError"} :
                   placeholder[Len(placeholder)] = UnknownErrorMessage(e)

ActiveStoredRows ==
    {r \in db_sessions :
        r.owner_id = UserId /\ [owner_id |-> UserId, session_name |-> r.name] \in db_active}

C31_FailureAddsNoAssistantMessage ==
    [][rpc = "await_error_edit" => r_session'.messages = r_session.messages]_vars

\* C38: in a task that has called the backend, the reply message was posted
\* first with the starting-up text, the command message is in the session,
\* the session's model is in the catalogue and one endpoint was called once;
\* the assistant message is appended only after the stream was read and the
\* final edit of the pipeline was issued.
C38_RespondOrdering ==
    /\ [](backend_calls # <<>> =>
            /\ placeholder # <<>> /\ placeholder[1] = StartingUpMessage
            /\ TriggerPositions(r_session.messages) # {}
            /\ r_session.model \in Catalogue
            /\ Len(backend_calls) = 1
            /\ backend_calls[1] \in {"chat", "generate"})
    /\ [][(RespondAddReply /\ backend_calls # <<>>) =>
            /\ rpc = "await_pipeline"
            /\ r_read > 0
            /\ placeholder[Len(placeholder)] = RenderedReplyMessage]_vars

-----------------------------------------------------------------------------
(* Properties of the program start *)

\* C24: when there is no configuration file at start, the program writes the
\* example configuration to the same path and exits with a non-zero status
\* without starting the bot.
C24_MissingConfigWritesSeed ==
    [][(~config_file.exists /\ MainLoadConfig) =>
          /\ config_file' = DefaultConfigFile
          /\ exit_status' # NotExited /\ exit_status' # 0
          /\ main_pc' = "exited"]_vars

\* an option of section [bot] breaks one of the four constraints
ViolatesBotConstraints(section) ==
    \/ section.bot_prefix = ""
    \/ GetFloat(section.edit_delay_seconds) <= 0
    \/ GetInt(section.max_messages_for_context) < 0
    \/ section.session_db_path = ""

\* C25: BotConfig.from_config ends with ValueError whenever bot_prefix is
\* empty, edit_delay_seconds is not above 0, max_messages_for_context is
\* negative or session_db_path is empty, and otherwise returns the parsed
\* values; a [bot] section that breaks a constraint is never accepted.
C25_EagerValidation ==
    (main_pc # "start" /\ config_file.exists
        /\ ModelsConfigFromConfig(config_file).raised = "none") =>
        IF ViolatesBotConstraints(config_file.bot)
        THEN ~config.loaded /\ main_raised = "ValueError"
        ELSE /\ config.loaded
             /\ config.bot.bot_prefix = config_file.bot.bot_prefix
             /\ config.bot.edit_delay = GetFloat(config_file.bot.edit_delay_seconds)
             /\ config.bot.max_messages_for_context =
                    GetInt(config_file.bot.max_messages_for_context)
             /\ config.bot.session_db_path = PathOf(config_file.bot.session_db_path)

-----------------------------------------------------------------------------
(* Properties of the functions without state *)

\* C23: rewriting the mentions of a text that has been rewritten with the
\* same mention list changes nothing, and the rewritten text holds no
\* <@id> of a listed mention any more.
C23_MentionRewritingIdempotent ==
    (call_result.called /\ call_args.fn = "transform_mentions_into_usernames") =>
        /\ TransformMentionsIntoUsernames(call_result.value, call_args.mentions)
               = call_result.value
        /\ \A i \in 1..Len(call_args.mentions) :
               Find(call_result.value, MentionToken(call_args.mentions[i])) = NoPos

\* the positions of the configs whose key is a prefix of the name
PrefixPositions(models, full_name) ==
    {i \in 1..Len(models) : StartsWith(full_name, models[i].key)}

\* the first config, in the order of declaration, whose key is a prefix
FirstPrefixConfig(models, full_name) ==
    IF PrefixPositions(models, full_name) = {} THEN NoModel
    ELSE models[CHOOSE i \in PrefixPositions(models, full_name) :
                    \A j \in PrefixPositions(models, full_name) : i <= j].config

\* the installed models that have a config by prefix, in the order of the list
RECURSIVE JoinedByPrefix(_, _)
JoinedByPrefix(installed, models) ==
    IF installed = <<>> THEN <<>>
    ELSE LET c == FirstPrefixConfig(models, Head(installed).model)
         IN  (IF c = NoModel THEN <<>> ELSE <<[model |-> Head(installed).model, config |-> c]>>)
                 \o JoinedByPrefix(Tail(installed), models)

\* C26: get_model_config, get_all_models and get_model give a full model
\* name the first config, in the order of declaration, whose key is a prefix
\* of the name, and none when no key is a prefix.
C26_FirstPrefixMatch ==
    /\ (call_result.called /\ call_args.fn = "get_model_config") =>
           call_result.value = FirstPrefixConfig(call_args.models, call_args.full_model_name)
    /\ (call_result.called /\ call_args.fn = "get_all_models") =>
           LET joined == JoinedByPrefix(call_args.installed, call_args.models)
           IN  /\ Len(call_result.value) = Len(joined)
               /\ \A i \in 1..Len(joined) : call_result.value[i].config = joined[i].config
    /\ (call_result.called /\ call_args.fn = "get_model") =>
           LET joined == JoinedByPrefix(
                   SelectSeq(call_args.installed,
                             LAMBDA m : StartsWith(m.model, call_args.name)),
                   call_args.models)
           IN  IF joined = <<>> THEN call_result.value = NoModel
               ELSE /\ call_result.value # NoModel
                    /\ call_result.value.config = joined[1].config

\* what the backend reports: the value of the first modelinfo entry whose
\* key ends with context_length
BackendPositions(modelinfo) ==
    {i \in 1..Len(modelinfo.items) : EndsWith(modelinfo.items[i].key, ContextLengthSuffix)}

BackendReports(modelinfo) == modelinfo.present /\ BackendPositions(modelinfo) # {}

BackendContextLength(modelinfo) ==
    modelinfo.items[CHOOSE i \in BackendPositions(modelinfo) :
                        \A j \in BackendPositions(modelinfo) : i <= j].value

\* C27: the context length of a catalogue entry is the configured
\* context_limit when there is one, otherwise the value the backend reports,
\* and when there is neither it is UnknownContextLengthValue, the value the
\* program uses for "unknown".
C27_ContextLengthResolution ==
    /\ (call_result.called /\ call_args.fn = "from_ollama_model") =>
           call_result.value.context_length =
               IF call_args.model_config.context_limit.some
               THEN call_args.model_config.context_limit
               ELSE IF BackendReports(call_args.ollama_model.modelinfo)
               THEN SomeInt(BackendContextLength(call_args.ollama_model.modelinfo))
               ELSE SomeInt(UnknownContextLengthValue)
    /\ (call_result.called /\ call_args.fn = "find_context_length") =>
           LET modelinfo == [present |-> TRUE, items |-> call_args.info]
           IN  call_result.value =
                   IF BackendReports(modelinfo) THEN BackendContextLength(modelinfo)
                   ELSE UnknownContextLengthValue

-----------------------------------------------------------------------------
(* Specifications *)

InitParser == ParserInit /\ StreamIdle /\ StoreInit /\ RespondIdle /\ StartupIdle /\ CallIdle /\ CacheIdle

NextParser == AppendChunk

SpecParser == InitParser /\ [][NextParser]_vars

InitStream == StreamInit(StreamChunks) /\ ParserIdle /\ StoreInit /\ RespondIdle /\ StartupIdle /\ CallIdle /\ CacheIdle

NextStream == Tick \/ NextChunk \/ EditReturns \/ StreamEnd

SpecStream == InitStream /\ [][NextStream]_vars

InitStreamLong == StreamInit(LongStreamChunks) /\ ParserIdle /\ StoreInit /\ RespondIdle /\ StartupIdle /\ CallIdle /\ CacheIdle

SpecStreamLong == InitStreamLong /\ [][NextStream]_vars

InitStore == StoreInit /\ ParserIdle /\ StreamIdle /\ RespondIdle /\ StartupIdle /\ CallIdle /\ CacheIdle

NextSession ==
    \/ \E h \in Handles : NewSqliteChatSession(h, 1, "A")
    \/ \E h \in Handles, p \in StoredPrompts : SetSystemPrompt(h, p)
    \/ \E h \in Handles, m \in Models : SetModel(h, m)
    \/ \E h \in Handles, id \in MsgIds : AddMessage(h, id)
    \/ \E h \in Handles : Save(h)
    \/ \E h \in Handles : Load(h)
    \/ \E h \in Handles : Delete(h)

SpecSession == InitStore /\ [][NextSession]_vars

NextMutators ==
    \/ \E o \in Owners, n \in Names, m \in Models, p \in Prompts :
           NewChatSession(1, o, n, m, p)
    \/ NewSqliteChatSession(1, 1, "A")
    \/ \E p \in Prompts : SetSystemPrompt(1, p)
    \/ \E m \in Models : SetModel(1, m)
    \/ \E id \in MsgIds : AddMessage(1, id)
    \/ Save(1)

SpecMutators == InitStore /\ [][NextMutators]_vars

NextActive ==
    \/ \E h \in Handles, o \in Owners, n \in Names : NewSqliteChatSession(h, o, n)
    \/ \E h \in Handles : MarkAsActiveDelete(h)
    \/ \E h \in Handles : MarkAsActiveInsert(h)
    \/ \E o \in Owners : DisableActiveSession(o)
    \/ \E h \in Handles, o \in Owners : GetActiveSession(h, o)
    \/ \E h \in Handles : Delete(h)

SpecActive == InitStore /\ [][NextActive]_vars

NextSequential ==
    \/ \E h \in Handles, o \in Owners, n \in Names : NewSqliteChatSession(h, o, n)
    \/ \E h \in Handles : MarkAsActive(h)
    \/ \E o \in Owners : DisableActiveSession(o)
    \/ \E h \in Handles : Delete(h)

SpecSequential == InitStore /\ [][NextSequential]_vars

NextDelete ==
    \/ \E h \in Handles, n \in Names : NewSqliteChatSession(h, 1, n)
    \/ \E h \in Handles, m \in Models : SetModel(h, m)
    \/ \E h \in Handles : MarkAsActiveDelete(h)
    \/ \E h \in Handles : MarkAsActiveInsert(h)
    \/ \E h \in Handles : Delete(h)

SpecDelete == InitStore /\ [][NextDelete]_vars

InitRespond == RespondInit /\ StoreInit /\ ParserIdle /\ StreamIdle /\ StartupIdle /\ CallIdle /\ CacheIdle

NextRespond ==
    \/ NewSqliteChatSession(1, UserId, "A")
    \/ MarkAsActiveDelete(1)
    \/ MarkAsActiveInsert(1)
    \/ OtherMessageArrives
    \/ RespondReply
    \/ RespondGetSession
    \/ RespondReadHistory
    \/ RespondCreateTemporarySession
    \/ RespondAbort
    \/ RespondCallBackend
    \/ RespondBackendReturns
    \/ RespondAddReply
    \/ RespondCancel

SpecRespond == InitRespond /\ [][NextRespond]_vars

InitStartup == StartupInit /\ ParserIdle /\ StreamIdle /\ StoreInit /\ RespondIdle /\ CallIdle /\ CacheIdle

NextStartup == MainLoadConfig \/ MainRunBot

SpecStartup == InitStartup /\ [][NextStartup]_vars

InitMentions == MentionsInit /\ ParserIdle /\ StreamIdle /\ StoreInit /\ RespondIdle /\ StartupIdle /\ CacheIdle

NextMentions == CallTransformMentions

SpecMentions == InitMentions /\ [][NextMentions]_vars

InitCatalogue == CatalogueInit /\ ParserIdle /\ StreamIdle /\ StoreInit /\ RespondIdle /\ StartupIdle /\ CacheIdle

NextCatalogue ==
    \/ CallGetModelConfig
    \/ CallGetAllModels
    \/ CallGetModel
    \/ CallFromOllamaModel
    \/ CallFindContextLength

SpecCatalogue == InitCatalogue /\ [][NextCatalogue]_vars

InitStored == StoredInit(1, "A", MsgIds) /\ ParserIdle /\ StreamIdle /\ RespondIdle /\ StartupIdle /\ CallIdle /\ CacheIdle

NextStored ==
    \/ \E h \in Handles, n \in Names : NewSqliteChatSession(h, 1, n)
    \/ \E h \in Handles : GetActiveSession(h, 1)
    \/ \E h \in Handles : Load(h)
    \/ \E h \in Handles, m \in Models : SetModel(h, m)

SpecStored == InitStored /\ [][NextStored]_vars

InitRespondStored == RespondInit /\ StoredInit(UserId, "A", EarlierIds) /\ ParserIdle /\ StreamIdle /\ StartupIdle /\ CallIdle /\ CacheIdle

NextRespondStored ==
    \/ OtherMessageArrives
    \/ RespondReply
    \/ RespondGetSession
    \/ RespondReadHistory
    \/ RespondCreateTemporarySession
    \/ RespondAbort
    \/ RespondCallBackend
    \/ RespondBackendReturns
    \/ RespondAddReply
    \/ RespondCancel

SpecRespondStored == InitRespondStored /\ [][NextRespondStored]_vars

NextIntegrity ==
    \/ \E n \in Names : NewSqliteChatSession(1, 1, n)
    \/ \E id \in MsgIds : AddMessage(1, id)
    \/ \E p \in StoredPrompts : SetSystemPrompt(1, p)
    \/ \E m \in Models : SetModel(1, m)
    \/ \E n \in Names : SetName(1, n)
    \/ MarkAsActive(1)
    \/ Save(1)
    \/ Delete(1)

SpecIntegrity == InitStore /\ [][NextIntegrity]_vars

NextPrompts ==
    \/ \E h \in Handles, n \in Names : NewSqliteChatSession(h, 1, n)
    \/ \E h \in Handles, p \in StoredPrompts : SetSystemPrompt(h, p)
    \/ \E h \in Handles : Save(h)
    \/ \E h \in Handles : Load(h)

SpecPrompts == InitStore /\ [][NextPrompts]_vars

NextEventLoop == Tick \/ NextChunk \/ EditReturns \/ StreamEnd \/ OtherTaskStep

SpecEventLoop == InitStream /\ [][NextEventLoop]_vars

InitCache ==
    /\ StoredInit(1, "A", EarlierIds)
    /\ CacheIdle
    /\ ParserIdle /\ StreamIdle /\ RespondIdle /\ StartupIdle /\ CallIdle

NextCache ==
    \/ \E n \in Names : LoadSessionFromDb(n, 1)
    \/ GetActiveUserSession(1)

SpecCache == InitCache /\ [][NextCache]_vars

====
